---- MODULE Spec2Model ----
(***************************************************************************)
(* A model of the BEERS2 flowcell and cluster code:                        *)
(*   beers/flowcell.py  - Flowcell (validation, retention sampling, lane   *)
(*                        apportioning, coordinate generators)             *)
(*   beers/cluster.py   - Cluster (consensus read-out, serialisation)      *)
(*                                                                         *)
(* Numbers: flowcell_retention is held in hundredths (the code divides the *)
(* configured percentage by 100), so floor(retention * N) is               *)
(* (flowcell_retention * N) \div 100 in exact arithmetic.                  *)
(***************************************************************************)
EXTENDS Integers, Sequences, FiniteSets, TLC

VARIABLES
    \* ---- Flowcell object (flowcell.py, __init__) ----
    min_coords,             \* self.min_coords
    max_coords,             \* self.max_coords
    available_lanes,        \* self.available_lanes   (a list)
    lanes_to_use,           \* self.lanes_to_use      (a list)
    flowcell_retention,     \* self.flowcell_retention, in hundredths
    flowcell_lanes,         \* self.flowcell_lanes: list of FlowcellLane
    coordinate_generators,  \* self.coordinate_generators: lane -> generator frame
    \* ---- observation of the coordinate generators (history variables) ----
    issued,                 \* every <<lane, coordinates>> a generator has yielded, in order
    request,                \* the next() call in progress or just finished
    \* ---- Flowcell.validate ----
    validation,             \* the (valid, msg) tuple validate returned, << >> before
    \* ---- Flowcell.load_flowcell and the class counters ----
    next_cluster_id,        \* Cluster.next_cluster_id
    next_cluster_packet_id, \* ClusterPacket.next_cluster_packet_id
    molecule_packet,        \* the packet handed to load_flowcell
    input_molecules,        \* its molecules on entry (history variable)
    frame,                  \* locals of convert_molecule_pkt_to_cluster_pkt
    load_pc,                \* "idle", "converting", "drawing", "returned" or "error"
    exception,              \* the exception that ended the run, or "none"
    cluster_packets,        \* the cluster packets returned so far
    \* ---- a Cluster object being read and written out (cluster.py) ----
    cluster,                \* the Cluster
    readings,               \* the read_over_range calls of the last read() (history variable)
    cluster_exception,      \* the exception the last Cluster call raised, or "none"
    serialized,             \* << >>, or the cluster as serialize() saw it and the text it returned
    restored,               \* << >>, or the outcome of deserialize() on that text
    record,                 \* << >>, or a record that departs from the format, handed to deserialize()
    parsed,                 \* << >>, or the outcome of deserialize() on that record
    \* ---- SequenceBySynthesisStep (sequence_by_synthesis_step.py) ----
    step,                   \* the step object, with the class constants EPSILON and CROSS_TALK
    build,                  \* what the numpy build does where the result is not defined
    phasing_cache,          \* the lru_cache of get_inv_phasing_matrix: list of [key, value]
    phasing_built,          \* the keys whose matrix was built and inverted, in order (history variable)
    execution,              \* locals of execute and its position
    cluster_packet,         \* the packet execute works on
    packet_input,           \* its clusters on entry (history variable)
    calls,                  \* the call_bases calls of the last step taken (history variable)
    \* ---- random number generators ----
    np_random,              \* the state of numpy's global generator (np.random.*) of the process
    runs,                   \* the stage executions made, with what they drew (history variable)
    \* ---- generators made by further calls of Flowcell.generate_coordinates ----
    allocators,             \* list of generator frames: lane, position in the body, locals
    \* ---- one call of get_frac_skipped or read_flourescence (history variable) ----
    smear                   \* << >>, or the arguments and what was computed

flowcellVars == <<min_coords, max_coords, available_lanes, lanes_to_use,
                  flowcell_retention>>
generatorVars == <<flowcell_lanes, coordinate_generators, issued, request>>
loadVars == <<next_cluster_id, next_cluster_packet_id, molecule_packet,
              input_molecules, frame, load_pc, exception, cluster_packets>>
clusterVars == <<cluster, readings, cluster_exception, serialized, restored, record,
                 parsed>>
sequenceVars == <<step, build, phasing_cache, phasing_built, execution, cluster_packet,
                  packet_input, calls>>
seedVars == <<np_random, runs>>
vars == <<flowcellVars, generatorVars, validation, loadVars, clusterVars, sequenceVars,
          seedVars, allocators, smear>>

(***************************************************************************)
(* Bounds of the model.                                                    *)
(***************************************************************************)
MaxMolecules == 3   \* a packet is handed over while its size plus the clusters made so far is within this
MaxPackets == 2     \* molecule packets handed to the flowcell in one run

(***************************************************************************)
(* Program constants.                                                      *)
(***************************************************************************)
MaxAttempts == 100  \* flowcell.py:153  "if ctr >= 100"
Hundred == 100      \* flowcell.py:44   percentage / 100

NoValue == "none"

Range(lo, hi) == lo..hi          \* range(lo, hi + 1)

(***************************************************************************)
(* LaneCoordinates (beers/flowcell_lane.py): a triple (tile, x, y)         *)
(* compared by value.                                                      *)
(***************************************************************************)
LaneCoordinates(tile, x, y) == [tile |-> tile, x |-> x, y |-> y]

CoordinatesEqual(a, b) == a.tile = b.tile /\ a.x = b.x /\ a.y = b.y

\* "coordinates in consumed_coordinates" on a Python list
Contains(list, c) == \E i \in 1..Len(list) : CoordinatesEqual(list[i], c)

\* FlowcellLane(lane)
FlowcellLane(lane) == [lane |-> lane, consumed_coordinates |-> <<>>]

\* [fl.consumed_coordinates for fl in self.flowcell_lanes if fl.lane == lane][0]:
\* the index of the first FlowcellLane of that lane
FirstLaneIndex(lanes, lane) ==
    CHOOSE i \in 1..Len(lanes) :
        /\ lanes[i].lane = lane
        /\ \A j \in 1..(i - 1) : lanes[j].lane # lane

\* The triples a draw can produce: np.random.choice over the three ranges
DrawSpace(minc, maxc) ==
    { LaneCoordinates(t, x, y) : t \in Range(minc.tile, maxc.tile),
                                 x \in Range(minc.x, maxc.x),
                                 y \in Range(minc.y, maxc.y) }

(***************************************************************************)
(* Flowcell.generate_coordinates: one iteration of the "while True" loop   *)
(* (flowcell.py 141-154) of the generator of `lane`, whose counter is ctr, *)
(* on the triple drawn.  outcome: "yield", "raise" or "retry".             *)
(***************************************************************************)
generate_coordinates_no_check(lanes, ctr, lane, draw) ==
    LET i == FirstLaneIndex(lanes, lane)
    IN  [ctr |-> 0,
         lanes |-> [lanes EXCEPT ![i].consumed_coordinates = Append(@, draw)],
         outcome |-> "yield"]

generate_coordinates_no_reset(lanes, ctr, lane, draw) ==
    LET ctr1 == ctr + 1
        i == FirstLaneIndex(lanes, lane)
        consumed_coordinates == lanes[i].consumed_coordinates
    IN  IF ~Contains(consumed_coordinates, draw)
        THEN [ctr |-> ctr1,
              lanes |-> [lanes EXCEPT ![i].consumed_coordinates = Append(@, draw)],
              outcome |-> "yield"]
        ELSE [ctr |-> ctr1, lanes |-> lanes,
              outcome |-> IF ctr1 >= MaxAttempts THEN "raise" ELSE "retry"]

generate_coordinates_off_by_one(lanes, ctr, lane, draw) ==
    LET ctr1 == ctr + 1
        i == FirstLaneIndex(lanes, lane)
        consumed_coordinates == lanes[i].consumed_coordinates
    IN  IF ~Contains(consumed_coordinates, draw)
        THEN [ctr |-> 0,
              lanes |-> [lanes EXCEPT ![i].consumed_coordinates = Append(@, draw)],
              outcome |-> "yield"]
        ELSE [ctr |-> ctr1, lanes |-> lanes,
              outcome |-> IF ctr1 > MaxAttempts THEN "raise" ELSE "retry"]

generate_coordinates(lanes, ctr, lane, draw) ==
    LET ctr1 == ctr + 1
        i == FirstLaneIndex(lanes, lane)
        consumed_coordinates == lanes[i].consumed_coordinates
    IN  IF ~Contains(consumed_coordinates, draw)
        THEN [ctr |-> 0,
              lanes |-> [lanes EXCEPT ![i].consumed_coordinates = Append(@, draw)],
              outcome |-> "yield"]
        ELSE [ctr |-> ctr1, lanes |-> lanes,
              outcome |-> IF ctr1 >= MaxAttempts THEN "raise" ELSE "retry"]

(***************************************************************************)
(* Flowcell.__init__ (flowcell.py 41-54) with an explicit geometry         *)
(* (set_flowcell_coordinate_ranges, 186-190).                              *)
(*   percentage : parameters["flowcell_retention_percentage"]              *)
(*   lanes_param: parameters["lanes_to_use"] (a list, possibly empty)      *)
(*   geometry   : parameters["flowcell_geometry"]                          *)
(***************************************************************************)
GeneratorFrame == [pc |-> "created", ctr |-> 0]

RangeList(lo, hi) == [i \in 1..(IF hi >= lo THEN hi - lo + 1 ELSE 0) |-> lo + i - 1]

ListSet(list) == { list[i] : i \in 1..Len(list) }

FlowcellInit(percentage, lanes_param, geometry) ==
    LET available == RangeList(geometry.min_lane, geometry.max_lane)
        use == IF lanes_param # <<>> THEN lanes_param ELSE available
    IN  /\ flowcell_retention = percentage
        /\ min_coords = [lane |-> geometry.min_lane, tile |-> geometry.min_tile,
                         x |-> geometry.min_x, y |-> geometry.min_y]
        /\ max_coords = [lane |-> geometry.max_lane, tile |-> geometry.max_tile,
                         x |-> geometry.max_x, y |-> geometry.max_y]
        /\ available_lanes = available
        /\ lanes_to_use = use
        /\ flowcell_lanes = [i \in 1..Len(use) |-> FlowcellLane(use[i])]
        /\ coordinate_generators = [lane \in ListSet(use) |-> GeneratorFrame]

Geometry(lanes, tiles, xs, ys) ==
    [min_lane |-> lanes[1], max_lane |-> lanes[2],
     min_tile |-> tiles[1], max_tile |-> tiles[2],
     min_x |-> xs[1], max_x |-> xs[2],
     min_y |-> ys[1], max_y |-> ys[2]]

\* The flowcell geometries of the model: a single triple on a single lane; two
\* triples (two tiles) on a single lane; two triples (two y) on two lanes; three
\* triples (three x) on two lanes.
Geometries ==
    { Geometry(<<1, 1>>, <<2, 2>>, <<1, 1>>, <<1, 1>>),
      Geometry(<<1, 1>>, <<1, 2>>, <<4, 4>>, <<4, 4>>),
      Geometry(<<1, 2>>, <<1, 1>>, <<3, 3>>, <<1, 2>>),
      Geometry(<<1, 2>>, <<2, 2>>, <<1, 3>>, <<5, 5>>) }

\* parameters["lanes_to_use"]: empty (all the available lanes) or a list
LaneParameters == { <<>>, <<1>>, <<2, 1>>, <<3>>, <<1, 3>> }

Subset(list, other) == ListSet(list) \subseteq ListSet(other)

NoFrame == [cluster_packet_id |-> 0, clusters |-> <<>>, molecules_per_lane |-> 0,
            lane_index |-> 0, lane |-> 0, counter |-> 0]

\* the class counters as the module is imported, no packet in hand
LoadInit ==
    /\ next_cluster_id = 1
    /\ next_cluster_packet_id = 1
    /\ molecule_packet = NoValue
    /\ input_molecules = <<>>
    /\ frame = NoFrame
    /\ load_pc = "idle"
    /\ exception = NoValue
    /\ cluster_packets = <<>>

\* no Cluster object is being read or written out
NoClusterInHand ==
    /\ cluster = <<>>
    /\ readings = <<>>
    /\ cluster_exception = NoValue
    /\ serialized = <<>>
    /\ restored = <<>>
    /\ record = <<>>
    /\ parsed = <<>>

\* no sequencing step has been made
NoSequencing ==
    /\ step = <<>>
    /\ build = <<>>
    /\ phasing_cache = <<>>
    /\ phasing_built = <<>>
    /\ execution = <<>>
    /\ cluster_packet = <<>>
    /\ packet_input = <<>>
    /\ calls = <<>>

\* no stage has drawn from a generator, no further generator has been made
\* and nothing has been smeared
NoSeeding ==
    /\ np_random = 0
    /\ runs = <<>>

NoAllocators == allocators = <<>>

NoSmear == smear = <<>>

NoRequest == [lane |-> 0, draws |-> 0, duplicates |-> 0, outcome |-> NoValue]

(***************************************************************************)
(* Text.  A character is its code point (ord), a Python str is the list of *)
(* its characters.                                                         *)
(***************************************************************************)
Ord == [tab |-> 9, newline |-> 10, hash |-> 35, plus |-> 43, minus |-> 45, zero |-> 48,
        A |-> 65, C |-> 67, G |-> 71, N |-> 78, T |-> 84]

TrueText == <<84, 114, 117, 101>>           \* "True"
FalseText == <<70, 97, 108, 115, 101>>      \* "False"

\* the characters str.rstrip() and str.strip() remove
Whitespace == {9, 10, 11, 12, 13, 28, 29, 30, 31, 32}

\* str(n) of an int
IntToStr(n) ==
    LET RECURSIVE Digits(_)
        Digits(k) == IF k < 10 THEN <<Ord.zero + k>>
                     ELSE Append(Digits(k \div 10), Ord.zero + (k % 10))
    IN  IF n < 0 THEN <<Ord.minus>> \o Digits(-n) ELSE Digits(n)

RECURSIVE RStrip(_)
RStrip(s) ==
    IF s # <<>> /\ s[Len(s)] \in Whitespace THEN RStrip(SubSeq(s, 1, Len(s) - 1)) ELSE s

RECURSIVE LStrip(_)
LStrip(s) ==
    IF s # <<>> /\ s[1] \in Whitespace THEN LStrip(SubSeq(s, 2, Len(s))) ELSE s

\* s.split(sep) for a one-character separator: the list of the pieces
RECURSIVE Split(_, _)
Split(s, sep) ==
    IF \E i \in 1..Len(s) : s[i] = sep
    THEN LET i == CHOOSE k \in 1..Len(s) : s[k] = sep /\ \A j \in 1..(k - 1) : s[j] # sep
         IN  <<SubSeq(s, 1, i - 1)>> \o Split(SubSeq(s, i + 1, Len(s)), sep)
    ELSE <<s>>

StartsWith(s, prefix) ==
    Len(s) >= Len(prefix) /\ SubSeq(s, 1, Len(prefix)) = prefix

\* s[k:]
DropFirst(s, k) == SubSeq(s, k + 1, Len(s))

IsDigit(ch) == ch >= Ord.zero /\ ch <= Ord.zero + 9

\* int(s): << n >>, or << >> where int() raises ValueError
ParseInt(s) ==
    LET t == LStrip(RStrip(s))
        signed == t # <<>> /\ t[1] \in {Ord.minus, Ord.plus}
        digits == IF signed THEN DropFirst(t, 1) ELSE t
        RECURSIVE Value(_)
        Value(k) == IF k = 0 THEN 0 ELSE 10 * Value(k - 1) + (digits[k] - Ord.zero)
    IN  IF digits = <<>> \/ \E i \in 1..Len(digits) : ~IsDigit(digits[i])
        THEN <<>>
        ELSE IF signed /\ t[1] = Ord.minus THEN << -Value(Len(digits)) >>
             ELSE << Value(Len(digits)) >>

RECURSIVE Join(_)
Join(pieces) == IF pieces = <<>> THEN <<>> ELSE pieces[1] \o Join(Tail(pieces))

(***************************************************************************)
(* Python values whose type the code leaves open: an int, a str or a bool. *)
(***************************************************************************)
PyInt(n) == [type |-> "int", value |-> n]
PyStr(s) == [type |-> "str", value |-> s]
PyBool(b) == [type |-> "bool", value |-> b]

\* "if v:"
Truthy(v) ==
    CASE v.type = "bool" -> v.value
      [] v.type = "int" -> v.value # 0
      [] OTHER -> v.value # <<>>

\* f"{v}"
Format(v) ==
    CASE v.type = "bool" -> IF v.value THEN TrueText ELSE FalseText
      [] v.type = "int" -> IntToStr(v.value)
      [] OTHER -> v.value

\* list[index] of Python, index from -len to len - 1
IndexInRange(list, index) == -Len(list) <= index /\ index < Len(list)

PyItem(list, index) == list[(IF index < 0 THEN index + Len(list) ELSE index) + 1]

(***************************************************************************)
(* Molecule (beers/molecule.py) and Cluster.__init__ (cluster.py 22-42).   *)
(* None is written "none" for start and cigar; for a list parameter of     *)
(* Cluster None is written << >> ("x or []" gives [] for both), and        *)
(* base_counts is << >> for None and << counts >> when given.              *)
(***************************************************************************)
Molecule(molecule_id, sequence, start, cigar) ==
    [molecule_id |-> molecule_id, sequence |-> LStrip(RStrip(sequence)),
     start |-> start, cigar |-> cigar]

\* (encoded == ord(nt)).astype('int32')
CountsOf(sequence, nt) == [i \in 1..Len(sequence) |-> IF sequence[i] = nt THEN 1 ELSE 0]

BaseCounts(G, A, T, C) == [G |-> G, A |-> A, T |-> T, C |-> C]

OrEmpty(list) == IF list = <<>> THEN <<>> ELSE list

Cluster(run_id, cluster_id, molecule, lane, coordinates, molecule_count, diameter, called_sequences, called_indices, quality_scores, base_counts, forward_is_5_prime) ==
    [lane |-> lane,
     coordinates |-> coordinates,
     cluster_id |-> cluster_id,
     run_id |-> run_id,
     molecule |-> molecule,
     diameter |-> diameter,
     molecule_count |-> molecule_count,
     quality_scores |-> OrEmpty(quality_scores),
     called_sequences |-> OrEmpty(called_sequences),
     called_indices |-> OrEmpty(called_indices),
     base_counts |-> IF base_counts # <<>> THEN base_counts[1]
                     ELSE BaseCounts(CountsOf(molecule.sequence, Ord.G),
                                     CountsOf(molecule.sequence, Ord.A),
                                     CountsOf(molecule.sequence, Ord.T),
                                     CountsOf(molecule.sequence, Ord.C)),
     forward_is_5_prime |-> forward_is_5_prime]

NewCluster_first_id(run_id, cluster_id, molecule, lane, coordinates) ==
    Cluster(run_id, PyInt(1), molecule, lane, coordinates, 1, 0,
            <<>>, <<>>, <<>>, <<>>, PyBool(TRUE))

\* Cluster(self.run_id, cluster_id, molecule, lane, coordinates): the defaults
NewCluster(run_id, cluster_id, molecule, lane, coordinates) ==
    Cluster(run_id, PyInt(cluster_id), molecule, lane, coordinates, 1, 0,
            <<>>, <<>>, <<>>, <<>>, PyBool(TRUE))

RunId == 7     \* the run id of the model

(***************************************************************************)
(* Flowcell.identify_retained_molecules (flowcell.py 82-83).               *)
(* number_samples_to_draw, and the samples np.random.choice(molecules,     *)
(* size, replace=False) can return: the lists of `size` molecules at       *)
(* pairwise different positions of the packet.                             *)
(***************************************************************************)
number_samples_to_draw(retention, molecules) ==
    (retention * Len(molecules)) \div Hundred

Injective(f) == \A i, j \in DOMAIN f : i # j => f[i] # f[j]

choice_with_replacement(molecules, size) ==
    { [i \in 1..size |-> molecules[pick[i]]] :
          pick \in [1..size -> 1..Len(molecules)] }

choice_without_replacement(molecules, size) ==
    { [i \in 1..size |-> molecules[pick[i]]] :
          pick \in { f \in [1..size -> 1..Len(molecules)] : Injective(f) } }

\* np.random.choice raises ValueError for a negative size and for a sample
\* larger than the population
ChoiceRaises(molecules, size) == size < 0 \/ size > Len(molecules)

(***************************************************************************)
(* The packets handed to the flowcell: molecules numbered from 1.          *)
(***************************************************************************)
PacketMolecules(n) ==
    [i \in 1..n |-> Molecule(i, <<Ord.A, Ord.C, Ord.G, Ord.T>>, NoValue, NoValue)]

(***************************************************************************)
(* Flowcell.load_flowcell up to the loop of                                *)
(* convert_molecule_pkt_to_cluster_pkt (flowcell.py 123-126, 97-102).      *)
(***************************************************************************)
EnterConvert(retained) ==
    \* lines 97-102
    /\ next_cluster_packet_id' = next_cluster_packet_id + 1
    /\ IF Len(lanes_to_use) = 0
       THEN /\ load_pc' = "error"
            /\ exception' = "ZeroDivisionError"
            /\ frame' = [NoFrame EXCEPT !.cluster_packet_id = next_cluster_packet_id]
       ELSE /\ load_pc' = "converting"
            /\ exception' = exception
            /\ frame' = [cluster_packet_id |-> next_cluster_packet_id,
                         clusters |-> <<>>,
                         molecules_per_lane |-> Len(retained) \div Len(lanes_to_use),
                         lane_index |-> 0,
                         lane |-> lanes_to_use[1],
                         counter |-> 0]

load_flowcell(n) ==
    /\ load_pc \in {"idle", "returned"}
    /\ next_cluster_packet_id <= MaxPackets
    /\ n + next_cluster_id - 1 <= MaxMolecules
    /\ LET molecules == PacketMolecules(n)
           size == number_samples_to_draw(flowcell_retention, molecules)
       IN  /\ input_molecules' = molecules
           /\ IF ChoiceRaises(molecules, size)
              THEN /\ molecule_packet' = [sample |-> "sample", molecules |-> molecules]
                   /\ load_pc' = "error"
                   /\ exception' = "ValueError"
                   /\ UNCHANGED <<frame, next_cluster_packet_id>>
              ELSE \E retained \in choice_without_replacement(molecules, size) :
                   /\ molecule_packet' = [sample |-> "sample", molecules |-> retained]
                   /\ EnterConvert(retained)
    /\ UNCHANGED <<seedVars, allocators, smear, flowcellVars, generatorVars, validation, next_cluster_id,
                   cluster_packets, clusterVars, sequenceVars>>

(***************************************************************************)
(* One iteration of the loop of convert_molecule_pkt_to_cluster_pkt        *)
(* (flowcell.py 103-111).                                                  *)
(***************************************************************************)
\* lines 105-106: the lane index of the molecule at `counter` (from 0)
next_lane_index(counter, molecules_per_lane, lane_index, n_lanes) ==
    IF (counter + 1) % molecules_per_lane = 0 /\ lane_index + 1 < n_lanes
    THEN lane_index + 1
    ELSE lane_index

ClusterPacket(cluster_packet_id, sample, clusters) ==
    [cluster_packet_id |-> cluster_packet_id, sample |-> sample, clusters |-> clusters]

\* lines 104-108 up to the call next(self.coordinate_generators[lane])
convert_molecule ==
    /\ load_pc = "converting"
    /\ frame.counter < Len(molecule_packet.molecules)
    /\ IF frame.molecules_per_lane = 0
       THEN \* (counter + 1) % 0
            /\ load_pc' = "error"
            /\ exception' = "ZeroDivisionError"
            /\ UNCHANGED <<frame, generatorVars>>
       ELSE LET lane_index == next_lane_index(frame.counter, frame.molecules_per_lane,
                                              frame.lane_index, Len(lanes_to_use))
                lane == lanes_to_use[lane_index + 1]
            IN  /\ frame' = [frame EXCEPT !.lane_index = lane_index, !.lane = lane]
                /\ load_pc' = "drawing"
                /\ coordinate_generators' =
                      [coordinate_generators EXCEPT ![lane].pc = "running"]
                /\ request' = [lane |-> lane, draws |-> 0, duplicates |-> 0,
                               outcome |-> "running"]
                /\ UNCHANGED <<exception, flowcell_lanes, issued>>
    /\ UNCHANGED <<seedVars, allocators, smear, flowcellVars, validation, next_cluster_id, next_cluster_packet_id,
                   molecule_packet, input_molecules, cluster_packets, clusterVars, sequenceVars>>

\* One iteration of the loop of the running generator (141-154) on the triple
\* drawn; on a yield the caller goes on: the cluster is made and appended (108-111).
draw_coordinates(draw) ==
    /\ load_pc = "drawing"
    /\ LET lane == frame.lane
           molecule == molecule_packet.molecules[frame.counter + 1]
           cluster_id == next_cluster_id
           r == generate_coordinates(flowcell_lanes, coordinate_generators[lane].ctr,
                                     lane, draw)
       IN  /\ flowcell_lanes' = r.lanes
           /\ coordinate_generators' =
                 [coordinate_generators EXCEPT
                     ![lane] = [pc |-> CASE r.outcome = "yield" -> "suspended"
                                         [] r.outcome = "raise" -> "finished"
                                         [] OTHER -> "running",
                                ctr |-> r.ctr]]
           /\ request' = [lane |-> lane,
                          draws |-> request.draws + 1,
                          duplicates |-> IF r.outcome = "yield" THEN request.duplicates
                                         ELSE request.duplicates + 1,
                          outcome |-> IF r.outcome = "retry" THEN "running" ELSE r.outcome]
           /\ CASE r.outcome = "yield" ->
                     /\ issued' = Append(issued, <<lane, draw>>)
                     /\ frame' = [frame EXCEPT
                           !.clusters = Append(@, NewCluster(RunId, cluster_id, molecule,
                                                             lane, draw)),
                           !.counter = @ + 1]
                     /\ next_cluster_id' = next_cluster_id + 1
                     /\ load_pc' = "converting"
                     /\ UNCHANGED exception
                [] r.outcome = "raise" ->
                     /\ load_pc' = "error"
                     /\ exception' = "BeersException"
                     /\ UNCHANGED <<issued, frame, next_cluster_id>>
                [] OTHER ->
                     UNCHANGED <<issued, frame, next_cluster_id, load_pc, exception>>
    /\ UNCHANGED <<seedVars, allocators, smear, flowcellVars, validation, next_cluster_packet_id, molecule_packet,
                   input_molecules, cluster_packets, clusterVars, sequenceVars>>

\* line 112, and load_flowcell's return (127)
return_cluster_packet ==
    /\ load_pc = "converting"
    /\ frame.counter = Len(molecule_packet.molecules)
    /\ cluster_packets' = Append(cluster_packets,
                                 ClusterPacket(frame.cluster_packet_id,
                                               molecule_packet.sample, frame.clusters))
    /\ load_pc' = "returned"
    /\ request' = NoRequest
    /\ UNCHANGED <<seedVars, allocators, smear, flowcellVars, flowcell_lanes, coordinate_generators, issued,
                   validation, next_cluster_id, next_cluster_packet_id, molecule_packet,
                   input_molecules, frame, exception, clusterVars, sequenceVars>>

(***************************************************************************)
(* Flowcell.validate (flowcell.py 63-73): the tuple <<valid, msg>>, msg the *)
(* list of the messages appended: "lanes" for the subset message,          *)
(* "retention" for the retention message.                                  *)
(***************************************************************************)
validate(lanes, available, retention) ==
    LET bad_lanes == ~Subset(lanes, available)
        bad_retention == retention = 0 \/ retention >= Hundred
    IN  << ~bad_lanes /\ ~bad_retention,
           (IF bad_lanes THEN <<"lanes">> ELSE <<>>) \o
           (IF bad_retention THEN <<"retention">> ELSE <<>>) >>

\* parameters["flowcell_retention_percentage"]
Percentages == {-50, 0, 25, 50, 75, 100, 150}

\* the configurations the controller runs: those validate() accepts
LoadConfigurations ==
    { c \in [percentage : Percentages, lanes : LaneParameters, geometry : Geometries] :
        LET available == RangeList(c.geometry.min_lane, c.geometry.max_lane)
            use == IF c.lanes # <<>> THEN c.lanes ELSE available
        IN  validate(use, available, c.percentage)[1] }

(***************************************************************************)
(* The flowcell loading molecule packets.                                  *)
(***************************************************************************)
Init ==
    /\ \E c \in LoadConfigurations : FlowcellInit(c.percentage, c.lanes, c.geometry)
    /\ issued = <<>>
    /\ request = NoRequest
    /\ validation = <<>>
    /\ LoadInit
    /\ NoSeeding
    /\ NoAllocators
    /\ NoSmear
    /\ NoClusterInHand
    /\ NoSequencing

Next ==
    \/ \E n \in 0..MaxMolecules : load_flowcell(n)
    \/ convert_molecule
    \/ \E draw \in DrawSpace(min_coords, max_coords) : draw_coordinates(draw)
    \/ return_cluster_packet

Spec == Init /\ [][Next]_vars

(***************************************************************************)
(* Observations used by the properties.                                    *)
(***************************************************************************)
ConvertInProgress == load_pc \in {"converting", "drawing", "error"}

\* every cluster made so far, in creation order
AllClusters ==
    LET RECURSIVE Flat(_)
        Flat(i) == IF i = 0 THEN <<>> ELSE Flat(i - 1) \o cluster_packets[i].clusters
    IN  Flat(Len(cluster_packets)) \o (IF ConvertInProgress THEN frame.clusters ELSE <<>>)

Distinct(list) == \A i, j \in 1..Len(list) : i # j => list[i] # list[j]

InOpenUnitInterval(retention) == 0 < retention /\ retention < Hundred

\* a packet has been handed to load_flowcell
PacketInHand == load_pc # "idle"

(***************************************************************************)
(* C1: no two coordinates issued for the same lane are equal: no two       *)
(* clusters share (lane, tile, x, y), no lane's consumed_coordinates holds *)
(* a duplicate, and no generator yields the same triple twice for a lane.  *)
(***************************************************************************)
C1_UniqueCoordinates ==
    /\ \A i \in 1..Len(flowcell_lanes) :
          Distinct(flowcell_lanes[i].consumed_coordinates)
    /\ Distinct(issued)
    /\ \A i, j \in 1..Len(AllClusters) :
          i # j => \/ AllClusters[i].lane # AllClusters[j].lane
                   \/ AllClusters[i].coordinates # AllClusters[j].coordinates

\* two clusters of one lane, the second made after a duplicate draw was rejected
C1_Witness ==
    /\ \E i, j \in 1..Len(AllClusters) : i # j /\ AllClusters[i].lane = AllClusters[j].lane
    /\ request.outcome = "yield" /\ request.duplicates > 0

(***************************************************************************)
(* C2: a generator raises exactly when 100 duplicate draws have been made  *)
(* in a row since its last emission (so after exactly 100 draws of the     *)
(* request, as with a single, consumed triple), and a triple it yields was *)
(* not in the lane's consumed_coordinates before the draw.                 *)
(***************************************************************************)
ConsumedOf(lane) == flowcell_lanes[FirstLaneIndex(flowcell_lanes, lane)].consumed_coordinates

C2_RaisesAfterHundredDuplicates ==
    /\ [](/\ (request.outcome = "raise") <=> (request.duplicates >= MaxAttempts)
          /\ request.outcome = "raise" =>
                request.draws = MaxAttempts /\ request.duplicates = MaxAttempts)
    /\ [][Len(issued') > Len(issued) =>
             ~Contains(ConsumedOf(issued'[Len(issued')][1]), issued'[Len(issued')][2])]_vars

\* the space is a single triple, it is consumed, and the request has raised
C2_Witness ==
    /\ Cardinality(DrawSpace(min_coords, max_coords)) = 1
    /\ Len(issued) = 1
    /\ request.outcome = "raise"
    /\ exception = "BeersException"

(***************************************************************************)
(* C3: a request ends within 100 draws: no request has made more than 100  *)
(* draws, and one that has made 100 is no longer running.                  *)
(***************************************************************************)
C3_AtMostHundredDraws ==
    /\ request.draws <= MaxAttempts
    /\ request.outcome = "running" => request.draws < MaxAttempts

\* a request that ended on its 100th draw with an unused triple
C3_Witness ==
    request.outcome = "yield" /\ request.draws = MaxAttempts

LaneCount(clusters, lane) ==
    Cardinality({ i \in 1..Len(clusters) : clusters[i].lane = lane })

C7_EvenApportioning ==
    \A p \in 1..Len(cluster_packets) :
        LET clusters == cluster_packets[p].clusters
            L == Len(lanes_to_use)
            share == Len(clusters) \div L
        IN  \A k \in 1..L :
                LaneCount(clusters, lanes_to_use[k]) =
                    IF k < L THEN share ELSE Len(clusters) - (L - 1) * share

(***************************************************************************)
(* The flowcell of any configuration, validated by the controller.         *)
(***************************************************************************)
Configurations ==
    [percentage : Percentages, lanes : LaneParameters, geometry : Geometries]

InitValidate ==
    /\ \E c \in Configurations : FlowcellInit(c.percentage, c.lanes, c.geometry)
    /\ issued = <<>>
    /\ request = NoRequest
    /\ validation = <<>>
    /\ LoadInit
    /\ NoSeeding
    /\ NoAllocators
    /\ NoSmear
    /\ NoClusterInHand
    /\ NoSequencing

validate_flowcell ==
    /\ validation = <<>>
    /\ validation' = validate(lanes_to_use, available_lanes, flowcell_retention)
    /\ UNCHANGED <<seedVars, allocators, smear, flowcellVars, generatorVars, loadVars, clusterVars, sequenceVars>>

NextValidate == validate_flowcell

SpecValidate == InitValidate /\ [][NextValidate]_vars

Member(list, e) == \E i \in 1..Len(list) : list[i] = e

(***************************************************************************)
(* C5: validate reports the configuration invalid for every retention that *)
(* is not strictly between 0 and 1, and does not flag the retention of one *)
(* that is.                                                                *)
(***************************************************************************)
C5_RetentionValidated ==
    validation # <<>> =>
        /\ ~InOpenUnitInterval(flowcell_retention) => validation[1] = FALSE
        /\ InOpenUnitInterval(flowcell_retention) => ~Member(validation[2], "retention")

(***************************************************************************)
(* C6: validate returns invalid whenever the lanes to use are not a subset *)
(* of the available lanes; with bad lanes and a bad retention together the *)
(* message has an entry for each; with no violation it returns valid and   *)
(* an empty message.                                                       *)
(***************************************************************************)
C6_AllViolationsReported ==
    validation # <<>> =>
        LET bad_lanes == ~Subset(lanes_to_use, available_lanes)
            bad_retention == ~InOpenUnitInterval(flowcell_retention)
        IN  /\ bad_lanes => validation[1] = FALSE
            /\ (bad_lanes /\ bad_retention) =>
                  Member(validation[2], "lanes") /\ Member(validation[2], "retention")
            /\ (~bad_lanes /\ ~bad_retention) =>
                  validation[1] = TRUE /\ validation[2] = <<>>

(***************************************************************************)
(* Cluster: the consensus read-out (cluster.py 58-116).                    *)
(***************************************************************************)
MIN_ASCII == 33       \* cluster.py:19
MAX_QUALITY == 41     \* cluster.py:20

Channels == <<Ord.G, Ord.A, Ord.T, Ord.C>>     \* zip('GATC', ...)

\* get_base_counts_by_position(index): the counts in the order G, A, T, C
get_base_counts_by_position(c, index) ==
    << PyItem(c.base_counts.G, index), PyItem(c.base_counts.A, index),
       PyItem(c.base_counts.T, index), PyItem(c.base_counts.C, index) >>

\* one of the four lookups raises IndexError
PositionRaises(c, index) ==
    \/ ~IndexInRange(c.base_counts.G, index) \/ ~IndexInRange(c.base_counts.A, index)
    \/ ~IndexInRange(c.base_counts.T, index) \/ ~IndexInRange(c.base_counts.C, index)

\* max(base_counts, key=count): the first channel holding the largest count
min_base_count(counts) ==
    CHOOSE k \in 1..4 : /\ \A j \in 1..4 : counts[j] >= counts[k]
                        /\ \A j \in 1..(k - 1) : counts[j] > counts[k]

max_base_count(counts) ==
    CHOOSE k \in 1..4 : /\ \A j \in 1..4 : counts[j] <= counts[k]
                        /\ \A j \in 1..(k - 1) : counts[j] < counts[k]

\* len([... if base_count[1] == max_base_count[1]])
number_max_values_but_first(counts) ==
    Cardinality({ j \in 1..4 : counts[j] = counts[max_base_count(counts)] }) - 1

number_max_values(counts) ==
    Cardinality({ j \in 1..4 : counts[j] = counts[max_base_count(counts)] })

\* sum(count for base, count in base_counts if base != max_base_count[0])
other_bases_total_count(counts) ==
    LET k == max_base_count(counts)
        RECURSIVE Sum(_)
        Sum(j) == IF j = 0 THEN 0 ELSE Sum(j - 1) + (IF j = k THEN 0 ELSE counts[j])
    IN  Sum(4)

(***************************************************************************)
(* floor(-10 * log10(other / molecule_count)), in integers.  Scale is 10^4 *)
(* PowerCeil[q] is ceil(10^(q/10) * 10^4) and PowerFloor[q] the floor, so  *)
(* for other <= molecule_count the value is the largest q with             *)
(* molecule_count / other >= 10^(q/10), and for other > molecule_count it  *)
(* is -(the least q with other / molecule_count <= 10^(q/10)).  The tables *)
(* agree with the floating-point expression for every other in 1..60 and   *)
(* molecule_count in 1..700 with other <= 100 * molecule_count.            *)
(***************************************************************************)
Scale == 10000

PowerCeil ==
    << 12590, 15849, 19953, 25119, 31623, 39811, 50119, 63096, 79433, 100000,
       125893, 158490, 199527, 251189, 316228, 398108, 501188, 630958, 794329, 1000000,
       1258926, 1584894, 1995263, 2511887, 3162278, 3981072, 5011873, 6309574, 7943283,
       10000000, 12589255, 15848932, 19952624, 25118865, 31622777, 39810718, 50118724,
       63095735, 79432824, 100000000, 125892542 >>

PowerFloor ==
    << 12589, 15848, 19952, 25118, 31622, 39810, 50118, 63095, 79432, 100000,
       125892, 158489, 199526, 251188, 316227, 398107, 501187, 630957, 794328, 1000000 >>

FloorMinusTenLog(other, molecule_count) ==
    IF other <= molecule_count
    THEN LET ratio == (molecule_count * Scale) \div other
             reached == { q \in 1..Len(PowerCeil) : ratio >= PowerCeil[q] }
         IN  IF reached = {} THEN 0 ELSE CHOOSE q \in reached : \A r \in reached : r <= q
    ELSE LET enough == { q \in 1..Len(PowerFloor) :
                            other * Scale <= molecule_count * PowerFloor[q] }
         IN  -(CHOOSE q \in enough : \A r \in enough : q <= r)

Min(a, b) == IF a <= b THEN a ELSE b

\* the quality of 10 * log10(prob), the sign of the logarithm lost
quality_value_of_log(other, molecule_count) ==
    IF other # 0 THEN Min(MAX_QUALITY, 0 - FloorMinusTenLog(other, molecule_count))
    ELSE MAX_QUALITY

\* lines 80-82, for molecule_count > 0
quality_value(other, molecule_count) ==
    IF other # 0 THEN Min(MAX_QUALITY, FloorMinusTenLog(other, molecule_count))
    ELSE MAX_QUALITY

\* lines 71-85: the base and the quality character written for one position
call_position(c, position) ==
    LET counts == get_base_counts_by_position(c, position)
    IN  IF number_max_values(counts) > 1
        THEN [exception |-> NoValue, base |-> Ord.N, quality |-> MIN_ASCII]
        ELSE IF c.molecule_count = 0
        THEN [exception |-> "ZeroDivisionError", base |-> 0, quality |-> 0]
        ELSE IF c.molecule_count < 0 /\ other_bases_total_count(counts) > 0
        THEN [exception |-> "ValueError", base |-> 0, quality |-> 0]
        ELSE [exception |-> NoValue,
              base |-> Channels[max_base_count(counts)],
              quality |-> quality_value(other_bases_total_count(counts),
                                        c.molecule_count) + MIN_ASCII]

\* read_over_range(range_start, range_end): the strings returned, or the
\* exception raised with what had been written till then
RECURSIVE read_positions(_, _, _, _, _)
read_positions(c, position, range_end, called_bases, quality_scores) ==
    IF position >= range_end
    THEN [exception |-> NoValue, called_bases |-> called_bases,
          quality_scores |-> quality_scores]
    ELSE IF PositionRaises(c, position)
    THEN [exception |-> "IndexError", called_bases |-> called_bases,
          quality_scores |-> quality_scores]
    ELSE LET call == call_position(c, position)
         IN  IF call.exception # NoValue
             THEN [exception |-> call.exception, called_bases |-> called_bases,
                   quality_scores |-> quality_scores]
             ELSE read_positions(c, position + 1, range_end,
                                 Append(called_bases, call.base),
                                 Append(quality_scores, call.quality))

read_over_range(c, range_start, range_end) ==
    LET r == read_positions(c, range_start, range_end, <<>>, <<>>)
    IN  [range_start |-> range_start, range_end |-> range_end,
         exception |-> r.exception, called_bases |-> r.called_bases,
         quality_scores |-> r.quality_scores]

(***************************************************************************)
(* read_in_5_prime_direction, read_in_3_prime_direction and read           *)
(* (cluster.py 58-66, 88-110).  Each gives the cluster afterwards, the     *)
(* exception raised ("none" if none) and the read_over_range calls made.   *)
(* barcode_data is <<5' start, 5' length, 3' offset, 3' length>>.          *)
(***************************************************************************)
read_in_5_prime_direction(c, read_length, barcode_data, adapter_sequence) ==
    LET index == read_over_range(c, barcode_data[1], barcode_data[1] + barcode_data[2])
        range_start == Len(adapter_sequence)
        bases == read_over_range(c, range_start, range_start + read_length)
    IN  IF index.exception # NoValue
        THEN [cluster |-> c, exception |-> index.exception, readings |-> <<index>>]
        ELSE IF bases.exception # NoValue
        THEN [cluster |-> c, exception |-> bases.exception, readings |-> <<index, bases>>]
        ELSE [cluster |-> [c EXCEPT !.quality_scores = Append(@, bases.quality_scores),
                                    !.called_sequences = Append(@, bases.called_bases),
                                    !.called_indices = Append(@, index.called_bases)],
              exception |-> NoValue,
              readings |-> <<index, bases>>]

\* line 106 calls reverse() on the str read_over_range returned: AttributeError
read_in_3_prime_direction(c, read_length, barcode_data, adapter_sequence) ==
    LET index_end == Len(c.molecule.sequence) - barcode_data[3]
        index == read_over_range(c, index_end - barcode_data[4], index_end)
        range_end == Len(c.molecule.sequence) - Len(adapter_sequence)
        bases == read_over_range(c, range_end - read_length, range_end)
    IN  IF index.exception # NoValue
        THEN [cluster |-> c, exception |-> index.exception, readings |-> <<index>>]
        ELSE IF bases.exception # NoValue
        THEN [cluster |-> c, exception |-> bases.exception, readings |-> <<index, bases>>]
        ELSE [cluster |-> c, exception |-> "AttributeError", readings |-> <<index, bases>>]

read(c, read_length, paired_ends, barcode_data, adapter_sequences) ==
    LET Five(x) == read_in_5_prime_direction(x, read_length, barcode_data,
                                             adapter_sequences[1])
        Three(x) == read_in_3_prime_direction(x, read_length, barcode_data,
                                              adapter_sequences[2])
        Then(first, second) ==
            IF first.exception # NoValue \/ ~paired_ends THEN first
            ELSE [second EXCEPT !.readings = first.readings \o @]
    IN  IF Truthy(c.forward_is_5_prime)
        THEN Then(Five(c), Three(Five(c).cluster))
        ELSE Then(Three(c), Five(Three(c).cluster))

(***************************************************************************)
(* LaneCoordinates.serialize / deserialize (beers/flowcell_lane.py) and    *)
(* Molecule.serialize / deserialize: tab-separated fields.                 *)
(***************************************************************************)
Tab(fields) ==
    LET RECURSIVE Joined(_)
        Joined(k) == IF k = 1 THEN fields[1] ELSE Joined(k - 1) \o <<Ord.tab>> \o fields[k]
    IN  IF fields = <<>> THEN <<>> ELSE Joined(Len(fields))

coordinates_serialize(coordinates) ==
    Tab(<<IntToStr(coordinates.tile), IntToStr(coordinates.x), IntToStr(coordinates.y)>>)

\* << coordinates >>, or << >> where it raises
coordinates_deserialize(data) ==
    LET fields == Split(data, Ord.tab)
    IN  IF Len(fields) # 3 \/ \E i \in 1..3 : ParseInt(fields[i]) = <<>>
        THEN <<>>
        ELSE << LaneCoordinates(ParseInt(fields[1])[1], ParseInt(fields[2])[1],
                                ParseInt(fields[3])[1]) >>

molecule_serialize(molecule) ==
    Tab(<<IntToStr(molecule.molecule_id), molecule.sequence>>)

molecule_deserialize(data) ==
    LET fields == Split(data, Ord.tab)
    IN  IF Len(fields) # 2 \/ ParseInt(fields[1]) = <<>>
        THEN <<>>
        ELSE << Molecule(ParseInt(fields[1])[1], fields[2], NoValue, NoValue) >>

(***************************************************************************)
(* Cluster.serialize (cluster.py 132-143): the text, or the exception.     *)
(***************************************************************************)
serialize(c) ==
    LET header == <<Ord.hash>> \o
                  Tab(<<Format(c.cluster_id), IntToStr(c.run_id),
                        IntToStr(c.molecule_count), IntToStr(c.diameter),
                        IntToStr(c.lane), Format(c.forward_is_5_prime)>>) \o
                  <<Ord.newline>>
        second == <<Ord.hash>> \o coordinates_serialize(c.coordinates) \o <<Ord.newline>> \o
                  <<Ord.hash>> \o molecule_serialize(c.molecule) \o <<Ord.newline>>
        called == [index \in 1..Len(c.called_sequences) |->
                     <<Ord.hash, Ord.hash>> \o
                     Tab(<<c.called_sequences[index], c.called_indices[index],
                           c.quality_scores[index]>>) \o <<Ord.newline>>]
        counts == [index \in 1..Len(c.molecule.sequence) |->
                     LET base_counts == get_base_counts_by_position(c, index - 1)
                     IN  Join([k \in 1..4 |-> IntToStr(base_counts[k]) \o <<Ord.tab>>]) \o
                         <<Ord.newline>>]
    IN  IF \/ Len(c.called_indices) < Len(c.called_sequences)
           \/ Len(c.quality_scores) < Len(c.called_sequences)
           \/ \E index \in 1..Len(c.molecule.sequence) : PositionRaises(c, index - 1)
        THEN [exception |-> "IndexError", text |-> <<>>]
        ELSE [exception |-> NoValue,
              text |-> header \o second \o Join(called) \o Join(counts)]

(***************************************************************************)
(* Cluster.deserialize (cluster.py 145-177).  The loop over the lines is a *)
(* fold over the locals; the result is the cluster built, or the exception *)
(* raised.                                                                 *)
(***************************************************************************)
NoLocals ==
    [exception |-> NoValue,
     called_sequences |-> <<>>, called_indices |-> <<>>, quality_scores |-> <<>>,
     G_counts |-> <<>>, A_counts |-> <<>>, T_counts |-> <<>>, C_counts |-> <<>>,
     header |-> <<>>,            \* << the six fields of line 0 >> once bound
     coordinates |-> <<>>,       \* << coordinates >> once bound
     molecule |-> <<>>]          \* << molecule >> once bound

\* lines 156-172 for one line; line_number counts from 0
deserialize_line(locals, line_number, line) ==
    IF StartsWith(line, <<Ord.hash, Ord.hash>>)
    THEN LET fields == Split(RStrip(DropFirst(line, 2)), Ord.tab)
         IN  IF Len(fields) # 3 THEN [locals EXCEPT !.exception = "ValueError"]
             ELSE [locals EXCEPT !.called_sequences = Append(@, fields[1]),
                                 !.called_indices = Append(@, fields[2]),
                                 !.quality_scores = Append(@, fields[3])]
    ELSE IF StartsWith(line, <<Ord.hash>>)
    THEN LET rest == RStrip(DropFirst(line, 1))
         IN  CASE line_number = 0 ->
                    IF Len(Split(rest, Ord.tab)) # 6
                    THEN [locals EXCEPT !.exception = "ValueError"]
                    ELSE [locals EXCEPT !.header = << Split(rest, Ord.tab) >>]
               [] line_number = 1 ->
                    IF coordinates_deserialize(rest) = <<>>
                    THEN [locals EXCEPT !.exception = "ValueError"]
                    ELSE [locals EXCEPT !.coordinates = coordinates_deserialize(rest)]
               [] line_number = 2 ->
                    IF molecule_deserialize(rest) = <<>>
                    THEN [locals EXCEPT !.exception = "ValueError"]
                    ELSE [locals EXCEPT !.molecule = molecule_deserialize(rest)]
               [] OTHER -> locals
    ELSE LET fields == Split(RStrip(line), Ord.tab)
         IN  IF Len(fields) # 4 \/ \E k \in 1..4 : ParseInt(fields[k]) = <<>>
             THEN [locals EXCEPT !.exception = "ValueError"]
             ELSE [locals EXCEPT !.G_counts = Append(@, ParseInt(fields[1])[1]),
                                 !.A_counts = Append(@, ParseInt(fields[2])[1]),
                                 !.T_counts = Append(@, ParseInt(fields[3])[1]),
                                 !.C_counts = Append(@, ParseInt(fields[4])[1])]

RECURSIVE deserialize_lines(_, _, _)
deserialize_lines(locals, lines, done) ==
    IF done = Len(lines) \/ locals.exception # NoValue THEN locals
    ELSE deserialize_lines(deserialize_line(locals, done, lines[done + 1]), lines, done + 1)

\* lines 146-177; the arguments of Cluster(...) are evaluated left to right
deserialize(data) ==
    LET locals == deserialize_lines(NoLocals, Split(RStrip(data), Ord.newline), 0)
        Field(k) == locals.header[1][k]
        Unbound == [exception |-> "UnboundLocalError", cluster |-> <<>>]
        Invalid == [exception |-> "ValueError", cluster |-> <<>>]
    IN  CASE locals.exception # NoValue -> [exception |-> locals.exception, cluster |-> <<>>]
          [] locals.header = <<>> -> Unbound
          [] ParseInt(Field(2)) = <<>> -> Invalid
          [] locals.molecule = <<>> -> Unbound
          [] ParseInt(Field(5)) = <<>> -> Invalid
          [] locals.coordinates = <<>> -> Unbound
          [] ParseInt(Field(3)) = <<>> \/ ParseInt(Field(4)) = <<>> -> Invalid
          [] OTHER ->
               [exception |-> NoValue,
                cluster |-> << Cluster(ParseInt(Field(2))[1], PyStr(Field(1)),
                                       locals.molecule[1], ParseInt(Field(5))[1],
                                       locals.coordinates[1], ParseInt(Field(3))[1],
                                       ParseInt(Field(4))[1], locals.called_sequences,
                                       locals.called_indices, locals.quality_scores,
                                       << BaseCounts(locals.G_counts, locals.A_counts,
                                                     locals.T_counts, locals.C_counts) >>,
                                       PyStr(Field(6))) >>]

(***************************************************************************)
(* A cluster being sequenced and written out.                              *)
(***************************************************************************)
Bases == {Ord.A, Ord.C, Ord.G, Ord.T}

\* molecule sequences of the model: every sequence of one or two bases
MoleculeSequences == { <<a>> : a \in Bases } \cup { <<a, b>> : a, b \in Bases }

\* the count vectors (G, A, T, C) of a position: a single channel, a two-way
\* tie, nothing counted, and two majorities
CountVectors == { <<10, 0, 0, 0>>, <<5, 5, 0, 0>>, <<0, 0, 0, 0>>, <<0, 7, 2, 1>>,
                  <<0, 0, 1, 6>> }

CountMatrices == { <<v>> : v \in CountVectors } \cup { <<v, w>> : v, w \in CountVectors }

\* molecule_count of the clusters whose counts are given
CopyCounts == {4, 10}

MatrixCounts(matrix) ==
    BaseCounts([i \in 1..Len(matrix) |-> matrix[i][1]], [i \in 1..Len(matrix) |-> matrix[i][2]],
               [i \in 1..Len(matrix) |-> matrix[i][3]], [i \in 1..Len(matrix) |-> matrix[i][4]])

\* the molecule of a count matrix: the called base where one leads, else 'A'
MatrixSequence(matrix) ==
    [i \in 1..Len(matrix) |->
        IF number_max_values(matrix[i]) > 1 THEN Ord.A
        ELSE Channels[max_base_count(matrix[i])]]

ModelClusters ==
    { Cluster(RunId, PyInt(1), Molecule(1, sequence, NoValue, NoValue), 1,
              LaneCoordinates(2, 1, 1), 1, 0, <<>>, <<>>, <<>>, <<>>, PyBool(forward)) :
          sequence \in MoleculeSequences, forward \in BOOLEAN }
    \cup
    { Cluster(RunId, PyInt(12), Molecule(3, MatrixSequence(matrix), NoValue, NoValue), 1,
              LaneCoordinates(2, 1, 1), copies, 0, <<>>, <<>>, <<>>,
              << MatrixCounts(matrix) >>, PyBool(forward)) :
          matrix \in CountMatrices, copies \in CopyCounts, forward \in BOOLEAN }

\* the sequencing configurations: read_length, paired_ends, barcode_data and
\* adapter_sequences (only the lengths of the adapters are used)
ReadConfigurations ==
    { [read_length |-> p[1], paired_ends |-> paired, barcode_data |-> p[2],
       adapter_sequences |-> p[3]] :
          p \in { <<1, <<0, 0, 0, 0>>, << <<>>, <<>> >> >>,
                  <<2, <<0, 1, 0, 1>>, << <<>>, <<>> >> >>,
                  <<1, <<0, 1, 0, 1>>, << <<Ord.A>>, <<Ord.A>> >> >> },
          paired \in BOOLEAN }

MaxReads == 2       \* read() calls on the cluster in one run

InitCluster ==
    /\ FlowcellInit(50, <<>>, Geometry(<<1, 1>>, <<2, 2>>, <<1, 1>>, <<1, 1>>))
    /\ issued = <<>>
    /\ request = NoRequest
    /\ validation = <<>>
    /\ LoadInit
    /\ NoSeeding
    /\ NoAllocators
    /\ NoSmear
    /\ cluster \in ModelClusters
    /\ readings = <<>>
    /\ cluster_exception = NoValue
    /\ serialized = <<>>
    /\ restored = <<>>
    /\ record = <<>>
    /\ parsed = <<>>
    /\ NoSequencing

\* cluster.read(read_length, paired_ends, barcode_data, adapter_sequences)
read_cluster(configuration) ==
    /\ serialized = <<>>
    /\ cluster_exception = NoValue
    /\ Len(cluster.called_sequences) < MaxReads
    /\ \E r \in { read(cluster, configuration.read_length, configuration.paired_ends,
                        configuration.barcode_data, configuration.adapter_sequences) } :
          /\ cluster' = r.cluster
          /\ cluster_exception' = r.exception
          /\ readings' = r.readings
    /\ UNCHANGED <<seedVars, allocators, smear, flowcellVars, generatorVars, validation, loadVars, sequenceVars,
                   serialized, restored,
                   record, parsed>>

\* cluster.serialize()
serialize_cluster ==
    /\ serialized = <<>>
    /\ cluster_exception = NoValue
    /\ LET r == serialize(cluster)
       IN  /\ serialized' = << [cluster |-> cluster, text |-> r.text,
                                exception |-> r.exception] >>
    /\ UNCHANGED <<seedVars, allocators, smear, flowcellVars, generatorVars, validation, loadVars, sequenceVars,
                   cluster, readings,
                   cluster_exception, restored, record, parsed>>

\* Cluster.deserialize(text) on the text serialize() returned
deserialize_cluster ==
    /\ serialized # <<>>
    /\ serialized[1].exception = NoValue
    /\ restored = <<>>
    /\ restored' = << deserialize(serialized[1].text) >>
    /\ UNCHANGED <<seedVars, allocators, smear, flowcellVars, generatorVars, validation, loadVars, sequenceVars,
                   cluster, readings,
                   cluster_exception, serialized, record, parsed>>

(***************************************************************************)
(* Records that depart from the format, made from the text serialize()     *)
(* returned, and Cluster.deserialize on them.                              *)
(***************************************************************************)
\* the lines of a text that ends with a newline, and the text of lines
LinesOf(text) == LET pieces == Split(text, Ord.newline)
                 IN  SubSeq(pieces, 1, Len(pieces) - 1)

TextOf(lines) == Join([i \in 1..Len(lines) |-> lines[i] \o <<Ord.newline>>])

\* a line without its last tab-separated field
DropLastField(line) ==
    LET fields == Split(RStrip(line), Ord.tab)
    IN  Tab(SubSeq(fields, 1, Len(fields) - 1))

IsCalledLine(line) == StartsWith(line, <<Ord.hash, Ord.hash>>)

FirstCalledLine(lines) ==
    CHOOSE i \in 1..Len(lines) :
        IsCalledLine(lines[i]) /\ \A j \in 1..(i - 1) : ~IsCalledLine(lines[j])

Malformations ==
    { "header_fields",        \* the header line has five fields
      "no_header",            \* the header line is missing
      "called_fields",        \* a called-fields line has two fields
      "count_fields",         \* a count line has three fields
      "count_not_integer",    \* a count is not an integer
      "extra_line" }          \* a further line that starts with '#'

Applicable(kind, text) ==
    CASE kind = "called_fields" -> \E i \in 1..Len(LinesOf(text)) : IsCalledLine(LinesOf(text)[i])
      [] kind \in {"count_fields", "count_not_integer"} ->
            ~StartsWith(LinesOf(text)[Len(LinesOf(text))], <<Ord.hash>>)
      [] OTHER -> TRUE

Malform(kind, text) ==
    LET lines == LinesOf(text)
        last == Len(lines)
    IN  CASE kind = "header_fields" ->
               TextOf([lines EXCEPT ![1] = DropLastField(@)])
          [] kind = "no_header" ->
               TextOf(Tail(lines))
          [] kind = "called_fields" ->
               TextOf([lines EXCEPT ![FirstCalledLine(lines)] = DropLastField(@)])
          [] kind = "count_fields" ->
               TextOf([lines EXCEPT ![last] = DropLastField(@)])
          [] kind = "count_not_integer" ->
               TextOf([lines EXCEPT ![last] = <<120>> \o @])
          [] OTHER ->
               TextOf(Append(lines, <<Ord.hash, Ord.zero + 7>>))

\* Cluster.deserialize(data) on a record that departs from the format
deserialize_malformed(kind) ==
    /\ serialized # <<>>
    /\ serialized[1].exception = NoValue
    /\ record = <<>>
    /\ Applicable(kind, serialized[1].text)
    /\ \E data \in { Malform(kind, serialized[1].text) } :
          /\ record' = << [kind |-> kind, text |-> data] >>
          /\ parsed' = << deserialize(data) >>
    /\ UNCHANGED <<seedVars, allocators, smear, flowcellVars, generatorVars, validation, loadVars, sequenceVars,
                   cluster, readings,
                   cluster_exception, serialized, restored>>

NextCluster ==
    \/ \E configuration \in ReadConfigurations : read_cluster(configuration)
    \/ serialize_cluster
    \/ deserialize_cluster
    \/ \E kind \in Malformations : deserialize_malformed(kind)

SpecCluster == InitCluster /\ [][NextCluster]_vars

(***************************************************************************)
(* Observations of the cluster used by the properties.                     *)
(***************************************************************************)
SameValue(a, b) == a.type = b.type /\ a.value = b.value

\* the counts (G, A, T, C) the cluster holds at a position (from 0, or from
\* the end when negative)
CountsAt(position) ==
    LET At(list) == list[(IF position < 0 THEN position + Len(list) ELSE position) + 1]
    IN  << At(cluster.base_counts.G), At(cluster.base_counts.A),
           At(cluster.base_counts.T), At(cluster.base_counts.C) >>

\* the positions for which a read_over_range call wrote a base
PositionsCalled(reading) ==
    reading.range_start..(reading.range_start + Len(reading.called_bases) - 1)

BaseCalled(reading, position) == reading.called_bases[position - reading.range_start + 1]

QualityCalled(reading, position) ==
    reading.quality_scores[position - reading.range_start + 1]

StrictlyHighest(counts, k) == \A j \in 1..4 : j # k => counts[j] < counts[k]

TiedForMaximum(counts) ==
    \E k, l \in 1..4 : /\ k # l
                       /\ counts[k] = counts[l]
                       /\ \A j \in 1..4 : counts[j] <= counts[k]

\* a call that returned did so with one base and one quality per position
ReadingComplete(reading) ==
    reading.exception = NoValue =>
        /\ Len(reading.called_bases) =
              (IF reading.range_end > reading.range_start
               THEN reading.range_end - reading.range_start ELSE 0)
        /\ Len(reading.quality_scores) = Len(reading.called_bases)

(***************************************************************************)
(* C8: the cluster deserialize returns for the text of serialize is the    *)
(* original in cluster id, run id, molecule count, lane, forward flag,     *)
(* coordinates, per-position counts and the three called lists, each value *)
(* of the type and truth value it had.                                     *)
(***************************************************************************)
C8_RoundTripIdentical ==
    restored # <<>> =>
        /\ restored[1].exception = NoValue
        /\ LET original == serialized[1].cluster
               copy == restored[1].cluster[1]
           IN  /\ SameValue(copy.cluster_id, original.cluster_id)
               /\ copy.run_id = original.run_id
               /\ copy.molecule_count = original.molecule_count
               /\ copy.lane = original.lane
               /\ SameValue(copy.forward_is_5_prime, original.forward_is_5_prime)
               /\ Truthy(copy.forward_is_5_prime) = Truthy(original.forward_is_5_prime)
               /\ copy.coordinates = original.coordinates
               /\ copy.base_counts = original.base_counts
               /\ copy.called_sequences = original.called_sequences
               /\ copy.called_indices = original.called_indices
               /\ copy.quality_scores = original.quality_scores

(***************************************************************************)
(* C9: at every position a read_over_range call covered, a channel whose   *)
(* count is strictly the highest is the base called, and where the three   *)
(* other channels are 0 the quality is the maximum, 41.                    *)
(***************************************************************************)
C9_StrictMaximumCalled ==
    \A i \in 1..Len(readings) :
        /\ ReadingComplete(readings[i])
        /\ \A position \in PositionsCalled(readings[i]) :
              \A k \in 1..4 :
                  StrictlyHighest(CountsAt(position), k) =>
                      /\ BaseCalled(readings[i], position) = Channels[k]
                      /\ (\A j \in 1..4 : j # k => CountsAt(position)[j] = 0) =>
                            QualityCalled(readings[i], position) = MAX_QUALITY + MIN_ASCII

\* 'G' called with quality 'J' where G:10 and the cluster has 10 copies
C9_Witness ==
    /\ cluster.molecule_count = 10
    /\ \E i \in 1..Len(readings) : \E position \in PositionsCalled(readings[i]) :
          /\ CountsAt(position) = <<10, 0, 0, 0>>
          /\ BaseCalled(readings[i], position) = Ord.G
          /\ QualityCalled(readings[i], position) = 74

(***************************************************************************)
(* C10: at every position a read_over_range call covered where two or more *)
(* channels tie for the maximum count, the base called is 'N' and the      *)
(* quality character is chr(33), whatever the molecule count.              *)
(***************************************************************************)
C10_TieCalledN ==
    \A i \in 1..Len(readings) : \A position \in PositionsCalled(readings[i]) :
        TiedForMaximum(CountsAt(position)) =>
            /\ BaseCalled(readings[i], position) = Ord.N
            /\ QualityCalled(readings[i], position) = 33

\* one call covering a two-way tie and a position with all four channels at
\* 0, both called 'N', in a cluster of 4 copies
C10_Witness ==
    /\ cluster.molecule_count = 4
    /\ \E i \in 1..Len(readings) : \E p, q \in PositionsCalled(readings[i]) :
          /\ CountsAt(p) = <<5, 5, 0, 0>>
          /\ CountsAt(q) = <<0, 0, 0, 0>>
          /\ BaseCalled(readings[i], p) = Ord.N /\ BaseCalled(readings[i], q) = Ord.N

(***************************************************************************)
(* C11: at every position a read_over_range call covered that has a unique *)
(* maximum and whose four counts sum to at most molecule_count, the count  *)
(* of disagreeing copies the quality is computed from is molecule_count    *)
(* less the maximum count: the quality character is that of                *)
(* p = (molecule_count - max_count) / molecule_count.                      *)
(***************************************************************************)
SumOfCounts(counts) == counts[1] + counts[2] + counts[3] + counts[4]

MaxOfCounts(counts) == CHOOSE m \in ListSet(counts) : \A j \in 1..4 : counts[j] <= m

UniqueMaximum(counts) == \E k \in 1..4 : StrictlyHighest(counts, k)

\* chr(33 + min(41, floor(-10 * log10(other / molecule_count)))), 41 for other = 0
QualityOfDisagreeing(other, molecule_count) ==
    MIN_ASCII + (IF other = 0 THEN MAX_QUALITY
                 ELSE Min(MAX_QUALITY, FloorMinusTenLog(other, molecule_count)))

C11_OtherIsCountLessMaximum ==
    \A i \in 1..Len(readings) : \A position \in PositionsCalled(readings[i]) :
        LET counts == CountsAt(position)
        IN  (UniqueMaximum(counts) /\ SumOfCounts(counts) <= cluster.molecule_count) =>
                QualityCalled(readings[i], position) =
                    QualityOfDisagreeing(cluster.molecule_count - MaxOfCounts(counts),
                                         cluster.molecule_count)

(***************************************************************************)
(* C12: a 3'-direction read whose index and template ranges lie within the *)
(* molecule completes without error and appends the reverse complement of  *)
(* the called bases, the quality string reversed and the called index.     *)
(* A cluster whose forward direction is 3' is read in the 3' direction     *)
(* first: the first two read_over_range calls of its read() are those of   *)
(* read_in_3_prime_direction.                                              *)
(***************************************************************************)
Reverse(list) == [i \in 1..Len(list) |-> list[Len(list) + 1 - i]]

Complement(base) ==
    CASE base = Ord.A -> Ord.T
      [] base = Ord.T -> Ord.A
      [] base = Ord.C -> Ord.G
      [] base = Ord.G -> Ord.C
      [] OTHER -> base

ReverseComplement(bases) == [i \in 1..Len(bases) |-> Complement(bases[Len(bases) + 1 - i])]

WithinMolecule(reading) ==
    /\ 0 <= reading.range_start
    /\ reading.range_start <= reading.range_end
    /\ reading.range_end <= Len(cluster.molecule.sequence)

\* read() has read the cluster in the 3' direction, over ranges the molecule covers
ThreePrimeReadDone ==
    /\ ~Truthy(cluster.forward_is_5_prime)
    /\ Len(readings) >= 2
    /\ WithinMolecule(readings[1]) /\ WithinMolecule(readings[2])

C12_ThreePrimeReadAppends ==
    ThreePrimeReadDone =>
        /\ cluster_exception # "AttributeError"
        /\ Len(cluster.called_sequences) >= 1
        /\ Len(cluster.called_indices) >= 1
        /\ Len(cluster.quality_scores) >= 1
        /\ cluster.called_sequences[1] = ReverseComplement(readings[2].called_bases)
        /\ cluster.quality_scores[1] = Reverse(readings[2].quality_scores)
        /\ cluster.called_indices[1] = readings[1].called_bases

(***************************************************************************)
(* C14: deserialize raises for every record that departs from the format   *)
(* (a wrong field count on the header, called-fields or count line, a      *)
(* count that is not an integer, a missing header line, a further line     *)
(* starting with '#'): it returns no cluster built from such a record.     *)
(***************************************************************************)
C14_MalformedRecordRaises ==
    parsed # <<>> =>
        /\ parsed[1].exception # NoValue
        /\ parsed[1].cluster = <<>>

(***************************************************************************)
(* C20: over the packets converted in a run the cluster ids are strictly   *)
(* increasing in creation order, so no id is given to two clusters, and    *)
(* the class counter is above every id given.                              *)
(***************************************************************************)
C20_ClusterIdsIncrease ==
    /\ \A i, j \in 1..Len(AllClusters) :
          i < j => AllClusters[i].cluster_id.value < AllClusters[j].cluster_id.value
    /\ \A i \in 1..Len(AllClusters) : AllClusters[i].cluster_id.value < next_cluster_id

\* two packets returned, each with a cluster
C20_Witness ==
    /\ Len(cluster_packets) = 2
    /\ Len(cluster_packets[1].clusters) >= 1
    /\ Len(cluster_packets[2].clusters) >= 1

(***************************************************************************)
(* Numbers of the sequencing step (sequence_by_synthesis_step.py).  A real *)
(* number is a fraction << numerator, denominator >> in lowest terms with  *)
(* a positive denominator; arithmetic on fractions is exact.               *)
(***************************************************************************)
Abs(n) == IF n < 0 THEN -n ELSE n

RECURSIVE Gcd(_, _)
Gcd(a, b) == IF b = 0 THEN a ELSE Gcd(b, a % b)

Fraction(n, d) ==
    LET g == Gcd(Abs(n), Abs(d))
    IN  IF d < 0 THEN << -(n \div g), -(d \div g) >> ELSE << n \div g, d \div g >>

Zero == <<0, 1>>
One == <<1, 1>>
Whole(n) == <<n, 1>>

RAdd(a, b) ==
    LET g == Gcd(a[2], b[2])
    IN  Fraction(a[1] * (b[2] \div g) + b[1] * (a[2] \div g), (a[2] \div g) * b[2])

RNeg(a) == << -a[1], a[2] >>

RSub(a, b) == RAdd(a, RNeg(b))

\* cross-cancelled before the products are made
RMul(a, b) ==
    LET g == Gcd(Abs(a[1]), b[2])
        h == Gcd(Abs(b[1]), a[2])
    IN  << (a[1] \div g) * (b[1] \div h), (a[2] \div h) * (b[2] \div g) >>

\* a / b for b # 0
RDiv(a, b) == RMul(a, IF b[1] < 0 THEN << -b[2], -b[1] >> ELSE << b[2], b[1] >>)

RLess(a, b) ==
    LET g == Gcd(a[2], b[2])
    IN  a[1] * (b[2] \div g) < b[1] * (a[2] \div g)

\* a ** k for an integer k >= 1
RECURSIVE RPower(_, _)
RPower(a, k) == IF k = 1 THEN a ELSE RMul(RPower(a, k - 1), a)

(***************************************************************************)
(* Arrays: a matrix is the list of its rows, each row a list.              *)
(***************************************************************************)
\* a list given position by position, as a tuple
List(f) == f \o <<>>

\* the value of F at v, v computed once
With(v, F(_)) == CHOOSE y \in { F(x) : x \in {v} } : TRUE

Rows(matrix) == Len(matrix)
Columns(matrix) == IF matrix = <<>> THEN 0 ELSE Len(matrix[1])

RECURSIVE RSum(_)
RSum(list) == IF list = <<>> THEN Zero ELSE RAdd(list[1], RSum(Tail(list)))

\* a @ b
MatMul(a, b) ==
    List([i \in 1..Rows(a) |->
            List([j \in 1..Columns(b) |->
                    RSum(List([k \in 1..Columns(a) |-> RMul(a[i][k], b[k][j])]))])])

Identity(n) == List([i \in 1..n |-> List([j \in 1..n |-> IF i = j THEN One ELSE Zero])])

\* np.linalg.inv(matrix) by Gauss-Jordan elimination on [matrix | identity]:
\* << inverse >>, or << >> where the matrix is singular (LinAlgError)
RECURSIVE Eliminate(_, _)
Eliminate(augmented, column) ==
    LET n == Rows(augmented)
        pivots == { r \in column..n : augmented[r][column] # Zero }
        pivot == CHOOSE r \in pivots : \A q \in pivots : r <= q
        Scaled(row) == List([j \in 1..(2 * n) |-> RDiv(row[j], row[column])])
        Cleared(row, by) ==
            List([j \in 1..(2 * n) |-> RSub(row[j], RMul(row[column], by[j]))])
        Step(by) ==
            List([i \in 1..n |->
                    IF i = column THEN by
                    ELSE Cleared(IF i = pivot THEN augmented[column] ELSE augmented[i], by)])
    IN  IF column > n THEN << List([i \in 1..n |-> SubSeq(augmented[i], n + 1, 2 * n)]) >>
        ELSE IF pivots = {} THEN <<>>
        ELSE With(With(Scaled(augmented[pivot]), LAMBDA by : Step(by)),
                  LAMBDA next : Eliminate(next, column + 1))

Inverse(matrix) ==
    With(List([i \in 1..Rows(matrix) |-> matrix[i] \o Identity(Rows(matrix))[i]]),
         LAMBDA augmented : Eliminate(augmented, 1))

(***************************************************************************)
(* get_inv_phasing_matrix (sequence_by_synthesis_step.py 270-288), without *)
(* its cache: the phasing matrix and its inverse.  j and t count from 0.   *)
(***************************************************************************)
phasing_entry_no_power(j, t, skip_rate, drop_rate) ==
    IF j = t THEN RSub(RSub(One, skip_rate), drop_rate)
    ELSE IF j > t THEN RSub(One, skip_rate)
    ELSE RSub(One, drop_rate)

phasing_entry(j, t, skip_rate, drop_rate) ==
    IF j = t THEN RSub(RSub(One, skip_rate), drop_rate)
    ELSE IF j > t THEN RMul(RPower(skip_rate, j - t), RSub(One, skip_rate))
    ELSE RMul(RPower(drop_rate, t - j), RSub(One, drop_rate))

phasing_matrix(read_len, skip_rate, drop_rate) ==
    List([j \in 1..read_len |->
            List([t \in 1..read_len |-> phasing_entry(j - 1, t - 1, skip_rate, drop_rate)])])

\* << the inverse >>, or << >> where np.linalg.inv raises LinAlgError
\* (np.array([]) for read_len = 0 is not a square matrix: LinAlgError as well)
inv_phasing_matrix(read_len, skip_rate, drop_rate) ==
    IF read_len = 0 THEN <<>> ELSE Inverse(phasing_matrix(read_len, skip_rate, drop_rate))

(***************************************************************************)
(* SequenceBySynthesisStep: class constants and __init__                   *)
(* (sequence_by_synthesis_step.py 15-74).  The rates and the matrix        *)
(* entries are exact fractions.                                            *)
(***************************************************************************)
PHRED_MIN_ASCII == 33
PHRED_MAX_QUALITY == 41
\* BASE_ORDER of the cluster module the step imports: the rows of a cluster's
\* count array ("0,1,2,3 = ACGT", line 251)
BASE_ARRAY == <<Ord.A, Ord.C, Ord.G, Ord.T>>
MAX_SKIPS == 10
MAX_DROPS == 10
EPSILON == 100
CROSS_TALK ==
    << <<One, Fraction(3, 10), Fraction(1, 5), Zero>>,
       <<Fraction(1, 10), One, Fraction(1, 5), Fraction(1, 10)>>,
       <<Fraction(1, 5), Fraction(1, 10), One, Fraction(3, 10)>>,
       <<Fraction(3, 10), Fraction(1, 10), Fraction(1, 10), One>> >>

\* parameters.get(key, default): an optional key is << >> or << value >>
GetOr(option, default) == IF option = <<>> THEN default ELSE option[1]

\* the object __init__ leaves, with the class attributes an instance reads
\* through self; samples is the list global_config['samples'].values()
SequenceBySynthesisStep(parameters, global_config, epsilon, cross_talk) ==
    LET resources == global_config.resources
        samples == global_config.samples
        forward_is_5_prime == GetOr(parameters.forward_is_5_prime, TRUE)
        paired_ends == GetOr(parameters.paired_ends, FALSE)
        i5_start == Len(resources.pre_i5_adapter)
        i7_start == Len(resources.post_i7_adapter)
        post_i5_length == Len(resources.post_i5_adapter)
        post_i7_length == Len(resources.pre_i7_adapter) + 1
        i5_barcode_lengths == List([k \in 1..Len(samples) |-> Len(samples[k].barcodes.i5)])
        i7_barcode_lengths == List([k \in 1..Len(samples) |-> Len(samples[k].barcodes.i7)])
        Lengths(list) == { list[k] : k \in 1..Len(list) }
        i5_length == i5_barcode_lengths[1]
        i7_length == i7_barcode_lengths[1]
    IN  IF forward_is_5_prime # TRUE \/ paired_ends = FALSE
        THEN [exception |-> "NotImplementedError", step |-> <<>>]
        ELSE IF Cardinality(Lengths(i5_barcode_lengths)) # 1
                \/ Cardinality(Lengths(i7_barcode_lengths)) # 1
        THEN [exception |-> "AssertionError", step |-> <<>>]
        ELSE [exception |-> NoValue,
              step |-> << [read_length |-> parameters.read_length,
                           forward_is_5_prime |-> forward_is_5_prime,
                           paired_ends |-> paired_ends,
                           skip_rate |-> parameters.skip_rate,
                           drop_rate |-> parameters.drop_rate,
                           i5_start |-> i5_start,
                           i7_start |-> i7_start,
                           post_i5_length |-> post_i5_length,
                           post_i7_length |-> post_i7_length,
                           i5_length |-> i5_length,
                           i7_length |-> i7_length,
                           forward_read_start |-> i5_start,
                           forward_read_end |-> i5_start + i5_length + post_i5_length
                                                + parameters.read_length,
                           reverse_read_start |-> i7_start,
                           reverse_read_end |-> i7_start + i7_length + post_i7_length
                                                + parameters.read_length,
                           EPSILON |-> epsilon,
                           CROSS_TALK |-> cross_talk] >>]

(***************************************************************************)
(* get_inv_phasing_matrix behind functools.lru_cache(maxsize=None)         *)
(* (270-288): the cache is a list of [key, value]; a call whose key is in  *)
(* the cache returns the stored value without running the body, any other  *)
(* call runs the body and stores what it returns.  A call that raises      *)
(* stores nothing.  built lists the keys whose body ran in this call.      *)
(***************************************************************************)
PhasingKey(read_len, skip_rate, drop_rate) == <<read_len, skip_rate, drop_rate>>

CacheHits(cache, key) == { i \in 1..Len(cache) : cache[i].key = key }

get_inv_phasing_matrix_uncached(cache, read_len, skip_rate, drop_rate) ==
    With(inv_phasing_matrix(read_len, skip_rate, drop_rate),
         LAMBDA inverse :
            [cache |-> cache,
             built |-> <<PhasingKey(read_len, skip_rate, drop_rate)>>,
             exception |-> IF inverse = <<>> THEN "LinAlgError" ELSE NoValue,
             value |-> inverse])

get_inv_phasing_matrix(cache, read_len, skip_rate, drop_rate) ==
    LET key == PhasingKey(read_len, skip_rate, drop_rate)
    IN  IF CacheHits(cache, key) # {}
        THEN [cache |-> cache,
              built |-> <<>>,
              exception |-> NoValue,
              value |-> <<cache[CHOOSE i \in CacheHits(cache, key) : TRUE].value>>]
        ELSE With(inv_phasing_matrix(read_len, skip_rate, drop_rate),
                  LAMBDA inverse :
                     [cache |-> IF inverse = <<>> THEN cache
                                ELSE Append(cache, [key |-> key, value |-> inverse[1]]),
                      built |-> <<key>>,
                      exception |-> IF inverse = <<>> THEN "LinAlgError" ELSE NoValue,
                      value |-> inverse])

(***************************************************************************)
(* get_frac_skipped (290-299).  skips is the outcome of                    *)
(* np.random.random(size=(molecule_count, read_len)) < rate: the set of    *)
(* <<molecule, position>> where the draw fell below the rate.  The result  *)
(* has one row per position and one column per number of skips 0..max.     *)
(***************************************************************************)
AllDraws(molecule_count, read_len) == (1..molecule_count) \X (1..read_len)

\* the outcomes the comparison with the rate can have, of which the model
\* follows two where the rate is strictly between 0 and 1: no skip at all,
\* and one skip, of the first molecule at the first position
SkipDraws(rate, molecule_count, read_len) ==
    IF ~RLess(Zero, rate) THEN { {} }
    ELSE IF ~RLess(rate, One) THEN { AllDraws(molecule_count, read_len) }
    ELSE { {}, { <<1, 1>> } \cap AllDraws(molecule_count, read_len) }

\* the depth of a molecule counted as it is, not clipped to max_skips
get_frac_skipped_unclipped(rate, max_skips, molecule_count, read_len, skips) ==
    LET skipping == { draw[1] : draw \in skips }
        num_skips_so_far(m, j) == Cardinality({ p \in 1..j : <<m, p>> \in skips })
    IN  List([j \in 1..read_len |->
                List([k \in 1..(max_skips + 1) |->
                        Fraction(Cardinality({ m \in skipping : num_skips_so_far(m, j) = k - 1 })
                                 + (IF k = 1 THEN molecule_count - Cardinality(skipping) ELSE 0),
                                 molecule_count)])])

\* the molecules without a skip are counted without being listed
get_frac_skipped(rate, max_skips, molecule_count, read_len, skips) ==
    LET skipping == { draw[1] : draw \in skips }
        num_skips_so_far(m, j) ==
            Min(Cardinality({ p \in 1..j : <<m, p>> \in skips }), max_skips)
    IN  List([j \in 1..read_len |->
                List([k \in 1..(max_skips + 1) |->
                        Fraction(Cardinality({ m \in skipping : num_skips_so_far(m, j) = k - 1 })
                                 + (IF k = 1 THEN molecule_count - Cardinality(skipping) ELSE 0),
                                 molecule_count)])])

(***************************************************************************)
(* read_flourescence (145-227).  cluster.base_counts is read as the array  *)
(* of the cluster module the step is written against: four rows in         *)
(* BASE_ORDER, one column per position of the molecule.                    *)
(***************************************************************************)
base_counts_array(c) ==
    << List(c.base_counts.A), List(c.base_counts.C),
       List(c.base_counts.G), List(c.base_counts.T) >>

\* list[start:stop] for start, stop >= 0
PySlice(list, start, stop) == SubSeq(list, Min(start, Len(list)) + 1, Min(stop, Len(list)))

Zeros(n) == List([i \in 1..n |-> 0])

\* a * b of numpy for a of shape (4, w) and b of shape (read_len,): the width
\* of the result, or -1 where the shapes do not broadcast
ProductWidth(w, read_len) ==
    IF w = read_len THEN w
    ELSE IF w = 1 THEN read_len
    ELSE IF read_len = 1 THEN w
    ELSE -1

\* beers_utils.cigar.chain: the library's answer, kept as the call made
Chain(align_start, read_len, direction, molecule) ==
    [chain |-> <<align_start, read_len, direction, molecule.start, molecule.cigar>>]

\* the normal draws the model follows: none, or one draw of +2 in channel C
\* at the first position
NoiseDraws(read_len) ==
    { List([r \in 1..4 |-> List([j \in 1..read_len |->
                                   IF r = 2 /\ j = 1 THEN Whole(spike) ELSE Zero])]) :
        spike \in {0, 2} }

\* lines 158-208: the locals when the smeared counts have been computed
smear_base_counts(self, c, range_start, range_end, direction, draw) ==
    LET read_len == range_end - range_start
        base_counts == base_counts_array(c)
        reversed == IF direction = "-"
                    THEN List([r \in 1..4 |-> Reverse(base_counts[5 - r])])
                    ELSE base_counts
        ranged == List([r \in 1..4 |->
                          PySlice(reversed[r], range_start, range_end + MAX_SKIPS)])
        end_pad_len == read_len + MAX_SKIPS - Len(ranged)
        prepad_len == MAX_DROPS
        padded_base_counts ==
            List([r \in 1..4 |-> Zeros(prepad_len) \o ranged[r] \o Zeros(end_pad_len)])
        \* the widths of the terms of the two sums that are computed and discarded
        skip_widths == { ProductWidth(Len(PySlice(padded_base_counts[1],
                                                  prepad_len + skip,
                                                  prepad_len + read_len + skip)), read_len) :
                           skip \in 1..MAX_SKIPS }
        drop_widths == { ProductWidth(Len(PySlice(padded_base_counts[1],
                                                  prepad_len - drop,
                                                  prepad_len + read_len - drop)), read_len) :
                           drop \in 1..prepad_len }
    IN  IF end_pad_len < 0 \/ -1 \in skip_widths \/ Cardinality(skip_widths) > 1
           \/ -1 \in drop_widths \/ Cardinality(drop_widths) > 1
        THEN [exception |-> "ValueError", padded_base_counts |-> <<>>, frac_skipped |-> <<>>,
              frac_dropped |-> <<>>, frac_maintained |-> <<>>, smeared_base_counts |-> <<>>]
        ELSE With(<< get_frac_skipped(self.skip_rate, MAX_SKIPS, c.molecule_count,
                                      read_len, draw.skips),
                     get_frac_skipped(self.drop_rate, MAX_DROPS, c.molecule_count,
                                      read_len, draw.drops) >>,
                  LAMBDA frac :
                     LET frac_skipped == frac[1]
                         frac_dropped == frac[2]
                         frac_maintained(j) ==
                             RSub(RSub(One, RSub(One, frac_skipped[j][1])),
                                  RSub(One, frac_dropped[j][1]))
                     IN  [exception |-> NoValue,
                          padded_base_counts |-> padded_base_counts,
                          frac_skipped |-> frac_skipped,
                          frac_dropped |-> frac_dropped,
                          frac_maintained |-> List([j \in 1..read_len |-> frac_maintained(j)]),
                          smeared_base_counts |->
                             List([r \in 1..4 |->
                                     List([j \in 1..read_len |->
                                             RMul(Whole(padded_base_counts[r][prepad_len + j]),
                                                  frac_maintained(j))])])])

read_flourescence(self, c, range_start, range_end, direction, draw) ==
    With(smear_base_counts(self, c, range_start, range_end, direction, draw),
         LAMBDA locals :
            LET read_len == range_end - range_start
                noisy ==
                    List([r \in 1..4 |->
                            List([j \in 1..read_len |->
                                    RAdd(locals.smeared_base_counts[r][j],
                                         RMul(Whole(self.EPSILON), draw.noise[r][j]))])])
                align_start == IF direction = "+" THEN range_start + 1
                               ELSE Len(c.molecule.sequence) - range_end
            IN  IF locals.exception # NoValue
                THEN [exception |-> locals.exception, flourescence |-> <<>>, read |-> <<>>,
                      locals |-> locals]
                ELSE [exception |-> NoValue,
                      flourescence |-> MatMul(self.CROSS_TALK, noisy),
                      read |-> << Chain(align_start, read_len, direction, c.molecule) >>,
                      locals |-> locals])

(***************************************************************************)
(* call_bases (229-268).                                                   *)
(*                                                                         *)
(* prob = norm.sf(|diff| / sigma) * 2 and -10 * log10(prob) are tabulated: *)
(* ScoreThreshold[q] is the least (|diff| / sigma)^2, in units of          *)
(* 1 / ScoreScale and rounded up, at which -10 * log10(prob) >= q.  The    *)
(* table ends at q = 512; a larger finite score is "untabulated" and is    *)
(* not converted.                                                          *)
(***************************************************************************)
ScoreScale == 10000

ScoreThreshold ==
    <<
       680, 2308, 4525, 7141, 10045, 13167, 16459, 19886, 23425, 27056,
       30765, 34541, 38375, 42260, 46189, 50157, 54161, 58196, 62260, 66349,
       70463, 74597, 78752, 82925, 87114, 91320, 95539, 99773, 104018, 108276,
       112545, 116824, 121113, 125411, 129718, 134033, 138356, 142686, 147024, 151368,
       155718, 160074, 164437, 168804, 173177, 177556, 181939, 186326, 190718, 195115,
       199515, 203920, 208328, 212740, 217155, 221574, 225996, 230422, 234850, 239282,
       243716, 248153, 252593, 257035, 261480, 265928, 270377, 274830, 279284, 283740,
       288199, 292660, 297122, 301587, 306054, 310522, 314992, 319464, 323938, 328413,
       332890, 337368, 341849, 346330, 350813, 355298, 359784, 364271, 368759, 373249,
       377741, 382233, 386727, 391222, 395718, 400215, 404713, 409213, 413713, 418215,
       422718, 427221, 431726, 436232, 440738, 445246, 449754, 454264, 458774, 463285,
       467797, 472310, 476824, 481338, 485854, 490370, 494887, 499404, 503923, 508442,
       512962, 517482, 522003, 526525, 531048, 535571, 540095, 544620, 549145, 553671,
       558197, 562724, 567252, 571780, 576309, 580838, 585368, 589899, 594430, 598961,
       603493, 608026, 612559, 617093, 621627, 626162, 630697, 635232, 639769, 644305,
       648842, 653380, 657918, 662456, 666995, 671534, 676074, 680614, 685154, 689695,
       694236, 698778, 703320, 707863, 712406, 716949, 721493, 726037, 730581, 735126,
       739671, 744216, 748762, 753308, 757855, 762402, 766949, 771496, 776044, 780592,
       785141, 789689, 794238, 798788, 803338, 807888, 812438, 816989, 821539, 826091,
       830642, 835194, 839746, 844298, 848851, 853404, 857957, 862510, 867064, 871618,
       876172, 880726, 885281, 889836, 894391, 898947, 903502, 908058, 912615, 917171,
       921728, 926284, 930842, 935399, 939956, 944514, 949072, 953630, 958189, 962747,
       967306, 971865, 976425, 980984, 985544, 990104, 994664, 999224, 1003785, 1008345,
       1012906, 1017467, 1022029, 1026590, 1031152, 1035714, 1040276, 1044838, 1049400, 1053963,
       1058526, 1063088, 1067652, 1072215, 1076778, 1081342, 1085906, 1090470, 1095034, 1099598,
       1104163, 1108727, 1113292, 1117857, 1122422, 1126987, 1131553, 1136118, 1140684, 1145250,
       1149816, 1154382, 1158949, 1163515, 1168082, 1172649, 1177215, 1181783, 1186350, 1190917,
       1195485, 1200052, 1204620, 1209188, 1213756, 1218324, 1222893, 1227461, 1232030, 1236598,
       1241167, 1245736, 1250305, 1254875, 1259444, 1264014, 1268583, 1273153, 1277723, 1282293,
       1286863, 1291433, 1296004, 1300574, 1305145, 1309715, 1314286, 1318857, 1323428, 1327999,
       1332571, 1337142, 1341714, 1346285, 1350857, 1355429, 1360001, 1364573, 1369145, 1373717,
       1378290, 1382862, 1387435, 1392008, 1396581, 1401154, 1405727, 1410300, 1414873, 1419446,
       1424020, 1428593, 1433167, 1437741, 1442314, 1446888, 1451462, 1456037, 1460611, 1465185,
       1469759, 1474334, 1478909, 1483483, 1488058, 1492633, 1497208, 1501783, 1506358, 1510933,
       1515509, 1520084, 1524660, 1529235, 1533811, 1538387, 1542962, 1547538, 1552114, 1556690,
       1561267, 1565843, 1570419, 1574996, 1579572, 1584149, 1588725, 1593302, 1597879, 1602456,
       1607033, 1611610, 1616187, 1620764, 1625342, 1629919, 1634497, 1639074, 1643652, 1648229,
       1652807, 1657385, 1661963, 1666541, 1671119, 1675697, 1680275, 1684854, 1689432, 1694010,
       1698589, 1703167, 1707746, 1712325, 1716903, 1721482, 1726061, 1730640, 1735219, 1739798,
       1744377, 1748957, 1753536, 1758115, 1762695, 1767274, 1771854, 1776434, 1781013, 1785593,
       1790173, 1794753, 1799333, 1803913, 1808493, 1813073, 1817653, 1822233, 1826814, 1831394,
       1835975, 1840555, 1845136, 1849716, 1854297, 1858878, 1863459, 1868040, 1872620, 1877201,
       1881783, 1886364, 1890945, 1895526, 1900107, 1904689, 1909270, 1913851, 1918433, 1923015,
       1927596, 1932178, 1936760, 1941341, 1945923, 1950505, 1955087, 1959669, 1964251, 1968833,
       1973415, 1977997, 1982580, 1987162, 1991744, 1996327, 2000909, 2005492, 2010074, 2014657,
       2019240, 2023822, 2028405, 2032988, 2037571, 2042154, 2046737, 2051320, 2055903, 2060486,
       2065069, 2069652, 2074236, 2078819, 2083402, 2087986, 2092569, 2097153, 2101736, 2106320,
       2110903, 2115487, 2120071, 2124654, 2129238, 2133822, 2138406, 2142990, 2147574, 2152158,
       2156742, 2161326, 2165910, 2170495, 2175079, 2179663, 2184248, 2188832, 2193416, 2198001,
       2202585, 2207170, 2211755, 2216339, 2220924, 2225509, 2230093, 2234678, 2239263, 2243848,
       2248433, 2253018, 2257603, 2262188, 2266773, 2271358, 2275943, 2280529, 2285114, 2289699,
       2294284, 2298870 >>

ScoreDigits == 4      \* ScoreScale = 10 ^ ScoreDigits

\* floor(rest * 10 ^ digits / d) for 0 <= rest < d, digit by digit
RECURSIVE ScaledFloor(_, _, _)
ScaledFloor(rest, d, digits) ==
    IF digits = 0 THEN 0
    ELSE ((rest * 10) \div d) * (10 ^ (digits - 1))
         + ScaledFloor((rest * 10) % d, d, digits - 1)

\* ratio >= threshold / ScoreScale for a fraction ratio >= 0, compared by
\* whole part and then by the first ScoreDigits digits of the rest
AtLeast(ratio, threshold) ==
    LET whole == ratio[1] \div ratio[2]
        rest == ratio[1] % ratio[2]
    IN  IF whole # threshold \div ScoreScale THEN whole > threshold \div ScoreScale
        ELSE ScaledFloor(rest, ratio[2], ScoreDigits) >= threshold % ScoreScale

\* -10 * np.log10(prob) before the conversion to uint8, for diff and
\* sigma ** 2: nan where sigma is nan (sigma ** 2 < 0) or the quotient is
\* 0 / 0, infinite where prob is 0
raw_score(diff, sigma_squared) ==
    IF RLess(sigma_squared, Zero) THEN [kind |-> "nan", value |-> 0]
    ELSE IF sigma_squared = Zero
    THEN IF diff = Zero THEN [kind |-> "nan", value |-> 0]
         ELSE [kind |-> "inf", value |-> 0]
    ELSE With(RDiv(RMul(diff, diff), sigma_squared),
              LAMBDA ratio :
                 IF AtLeast(ratio, ScoreThreshold[Len(ScoreThreshold)])
                 THEN [kind |-> "untabulated", value |-> 0]
                 ELSE [kind |-> "finite",
                       value |-> Cardinality({ q \in 1..Len(ScoreThreshold) :
                                                 AtLeast(ratio, ScoreThreshold[q]) })])

(***************************************************************************)
(* What the build does where numpy leaves the result open:                 *)
(*   cast  .astype("uint8") of a float that is not in 0..255: "wrap" keeps *)
(*         the low byte of the integer part and gives 0 for inf and nan,   *)
(*         "saturate" gives 255 for values above 255 and inf, 0 for nan;   *)
(*   ties  np.argsort of equal values (the default sort is not stable):    *)
(*         "ascending" puts the lower row first, "descending" the higher.  *)
(***************************************************************************)
Builds == [cast : {"wrap", "saturate"}, ties : {"ascending", "descending"}]

UINT8 == 256

astype_uint8(bld, score) ==
    CASE score.kind = "finite" ->
            IF score.value < UINT8 THEN score.value
            ELSE IF bld.cast = "wrap" THEN score.value % UINT8
            ELSE UINT8 - 1
      [] score.kind = "inf" -> IF bld.cast = "wrap" THEN 0 ELSE UINT8 - 1
      [] score.kind = "nan" -> 0

\* np.argsort(column): the rows 1..4 from the lowest value to the highest
argsort(bld, column) ==
    LET Before(a, b) ==
            \/ RLess(column[a], column[b])
            \/ /\ column[a] = column[b]
               /\ IF bld.ties = "ascending" THEN a < b ELSE a > b
    IN  List([k \in 1..4 |->
                CHOOSE a \in 1..4 : Cardinality({ b \in 1..4 : Before(b, a) }) = k - 1])

\* one position of the read: the called row, the score before and after
\* the conversion and the ceiling
call_position_by_synthesis(bld, column, M) ==
    With(argsort(bld, column),
         LAMBDA base_orders :
            LET called_base == base_orders[4]
                second_best_base == base_orders[3]
                diff == RSub(column[called_base], column[second_best_base])
                sigma_squared ==
                    RSub(RAdd(M[called_base][called_base],
                              M[second_best_base][second_best_base]),
                         RAdd(M[called_base][second_best_base],
                              M[second_best_base][called_base]))
            IN  With(raw_score(diff, sigma_squared),
                     LAMBDA raw :
                        [called_base |-> called_base,
                         raw |-> raw,
                         score |-> Min(PHRED_MAX_QUALITY, astype_uint8(bld, raw))]))

\* the phasing matrix comes through the cache, which the call may extend
call_bases(self, cache, bld, flourescence, epsilon_est, cross_talk_est_inv) ==
    LET read_len == Columns(flourescence)
        Called(phasing) ==
            LET base_counts_est ==
                    MatMul(MatMul(cross_talk_est_inv, flourescence), phasing.value[1])
                M == List([a \in 1..4 |->
                             List([b \in 1..4 |->
                                     RMul(RMul(cross_talk_est_inv[a][b], Whole(epsilon_est)),
                                          RMul(cross_talk_est_inv[b][a], Whole(epsilon_est)))])])
            IN  With(<<base_counts_est, M>>,
                     LAMBDA est :
                        With(List([j \in 1..read_len |->
                                     call_position_by_synthesis(
                                         bld, List([r \in 1..4 |-> est[1][r][j]]), est[2])]),
                             LAMBDA positions :
                                [exception |-> NoValue,
                                 cache |-> phasing.cache,
                                 built |-> phasing.built,
                                 phasing_matrix_inv |-> phasing.value,
                                 raw |-> List([j \in 1..read_len |-> positions[j].raw]),
                                 seq |-> List([j \in 1..read_len |->
                                                 BASE_ARRAY[positions[j].called_base]]),
                                 qual |-> List([j \in 1..read_len |->
                                                  PHRED_MIN_ASCII + positions[j].score])]))
    IN  With(get_inv_phasing_matrix(cache, read_len, self.skip_rate, self.drop_rate),
             LAMBDA phasing :
                IF phasing.exception # NoValue
                THEN [exception |-> phasing.exception, cache |-> phasing.cache,
                      built |-> phasing.built, phasing_matrix_inv |-> <<>>,
                      raw |-> <<>>, seq |-> <<>>, qual |-> <<>>]
                ELSE Called(phasing))

(***************************************************************************)
(* Reading one cluster by synthesis: read_flourescence followed by         *)
(* call_bases on its result, the way execute pairs them (89-95), with the  *)
(* noise size taken as known (epsilon_est = self.EPSILON, line 84) and the *)
(* cross-talk estimated without error.                                     *)
(***************************************************************************)
\* global_config with adapters and barcodes of the given lengths
GlobalConfig(pre_i5, i5, post_i5, pre_i7, i7, post_i7) ==
    [resources |-> [pre_i5_adapter |-> [k \in 1..pre_i5 |-> Ord.A],
                    post_i5_adapter |-> [k \in 1..post_i5 |-> Ord.C],
                    pre_i7_adapter |-> [k \in 1..pre_i7 |-> Ord.G],
                    post_i7_adapter |-> [k \in 1..post_i7 |-> Ord.T]],
     samples |-> << [barcodes |-> [i5 |-> [k \in 1..i5 |-> Ord.A],
                                   i7 |-> [k \in 1..i7 |-> Ord.C]]] >>]

StepParameters(forward_is_5_prime, paired_ends, read_length, skip_rate, drop_rate) ==
    [forward_is_5_prime |-> forward_is_5_prime, paired_ends |-> paired_ends,
     read_length |-> read_length, skip_rate |-> skip_rate, drop_rate |-> drop_rate]

\* a cross-talk between the channels A and C only.  (The inverse of CROSS_TALK
\* has entries over 9121, and the noise covariance made of it with EPSILON
\* leaves the integers of TLC: CROSS_TALK is read with a noise size of 0.)
PairCrossTalk ==
    << <<One, Fraction(1, 2), Zero, Zero>>,
       <<Fraction(1, 2), One, Zero, Zero>>,
       <<Zero, Zero, One, Zero>>,
       <<Zero, Zero, Zero, One>> >>

StepOf(setting) ==
    SequenceBySynthesisStep(
        StepParameters(<<TRUE>>, <<TRUE>>, 2, setting.skip_rate, setting.drop_rate),
        GlobalConfig(0, 0, 0, 0, 0, 0), setting.epsilon, setting.cross_talk).step[1]

\* a cluster of `copies` copies of one molecule, every copy read at every position
CopiesOf(sequence, copies) ==
    Cluster(RunId, PyInt(1), Molecule(1, sequence, NoValue, NoValue), 1,
            LaneCoordinates(2, 1, 1), copies, 0, <<>>, <<>>, <<>>,
            << BaseCounts([i \in 1..Len(sequence) |-> copies * CountsOf(sequence, Ord.G)[i]],
                          [i \in 1..Len(sequence) |-> copies * CountsOf(sequence, Ord.A)[i]],
                          [i \in 1..Len(sequence) |-> copies * CountsOf(sequence, Ord.T)[i]],
                          [i \in 1..Len(sequence) |-> copies * CountsOf(sequence, Ord.C)[i]]) >>,
            PyBool(TRUE))

ACGT == <<Ord.A, Ord.C, Ord.G, Ord.T>>

\* ten copies that disagree: G0 A5 T0 C5, none read, G3 A7, T10, C10
Disagreeing ==
    Cluster(RunId, PyInt(2), Molecule(2, <<Ord.A, Ord.A, Ord.A, Ord.T, Ord.C>>, NoValue, NoValue),
            1, LaneCoordinates(2, 1, 1), 10, 0, <<>>, <<>>, <<>>,
            << MatrixCounts(<< <<0, 5, 0, 5>>, <<0, 0, 0, 0>>, <<3, 7, 0, 0>>,
                               <<0, 0, 10, 0>>, <<0, 0, 0, 10>> >>) >>, PyBool(TRUE))

Setting(skip_rate, drop_rate, epsilon, cross_talk) ==
    [skip_rate |-> skip_rate, drop_rate |-> drop_rate, epsilon |-> epsilon,
     cross_talk |-> cross_talk]

\* the steps of the model, by rates, noise size and cross-talk, and the
\* clusters each reads: 100 copies of ACGTACGTACGT, 1600 copies and one copy
\* of ACGTA, and the ten copies that disagree
SynthesisScenarios ==
    { <<Setting(Zero, Zero, epsilon, Identity(4)), c>> :
        epsilon \in {0, EPSILON},
        c \in { CopiesOf(ACGT \o ACGT \o ACGT, 100), CopiesOf(ACGT \o <<Ord.A>>, 1600),
                Disagreeing } }
    \cup
    { <<Setting(Zero, Zero, 0, CROSS_TALK), CopiesOf(ACGT \o <<Ord.A>>, 1)>>,
      <<Setting(Fraction(1, 2), Zero, EPSILON, PairCrossTalk), CopiesOf(ACGT \o <<Ord.A>>, 1)>>,
      <<Setting(Fraction(1, 2), Zero, EPSILON, PairCrossTalk), Disagreeing>>,
      <<Setting(Fraction(1, 2), Fraction(1, 2), EPSILON, Identity(4)),
        CopiesOf(ACGT \o <<Ord.A>>, 1)>> }

MaxPhasedLength == 3    \* positions read in one call where a rate is not 0

\* the ranges read: the first position, and the whole molecule or, where a
\* rate is not 0, its first MaxPhasedLength positions
SynthesisRanges(self, c) ==
    { <<0, 1>>,
      <<0, IF self.skip_rate = Zero /\ self.drop_rate = Zero
           THEN Len(c.molecule.sequence) ELSE MaxPhasedLength>> }

SynthesisDraws(self, c, read_len) ==
    [skips : SkipDraws(self.skip_rate, c.molecule_count, read_len),
     drops : SkipDraws(self.drop_rate, c.molecule_count, read_len),
     noise : NoiseDraws(read_len)]

InitSynthesis ==
    /\ FlowcellInit(50, <<>>, Geometry(<<1, 1>>, <<2, 2>>, <<1, 1>>, <<1, 1>>))
    /\ issued = <<>>
    /\ request = NoRequest
    /\ validation = <<>>
    /\ LoadInit
    /\ NoSeeding
    /\ NoAllocators
    /\ NoSmear
    /\ \E scenario \in SynthesisScenarios :
          /\ step = StepOf(scenario[1])
          /\ cluster = scenario[2]
    /\ readings = <<>>
    /\ cluster_exception = NoValue
    /\ serialized = <<>>
    /\ restored = <<>>
    /\ record = <<>>
    /\ parsed = <<>>
    /\ build \in Builds
    /\ phasing_cache = <<>>
    /\ phasing_built = <<>>
    /\ execution = <<>>
    /\ cluster_packet = <<>>
    /\ packet_input = <<>>
    /\ calls = <<>>

\* flourescence, ... = self.read_flourescence(cluster, start, end, direction)
\* bases, quality = self.call_bases(flourescence, epsilon_est, cross_talk_inv_est)
read_and_call(self, cache, bld, c, range, direction, draw, epsilon_est, cross_talk_inv_est) ==
    With(read_flourescence(self, c, range[1], range[2], direction, draw),
         LAMBDA f :
            IF f.exception # NoValue
            THEN [exception |-> f.exception, cache |-> cache, built |-> <<>>,
                  phasing_matrix_inv |-> <<>>, raw |-> <<>>, seq |-> <<>>, qual |-> <<>>,
                  read |-> <<>>]
            ELSE With(call_bases(self, cache, bld, f.flourescence, epsilon_est,
                                 cross_talk_inv_est),
                      LAMBDA r :
                         [exception |-> r.exception, cache |-> r.cache, built |-> r.built,
                          phasing_matrix_inv |-> r.phasing_matrix_inv, raw |-> r.raw,
                          seq |-> r.seq, qual |-> r.qual, read |-> f.read]))

\* what is kept of one reading
CallRecord(range, direction, draw, r) ==
    [range_start |-> range[1], range_end |-> range[2],
     direction |-> direction,
     skipped |-> draw.skips # {} \/ draw.drops # {},
     noise |-> draw.noise[2][1],
     exception |-> r.exception,
     built |-> r.built,
     phasing_matrix_inv |-> r.phasing_matrix_inv,
     raw |-> r.raw, seq |-> r.seq, qual |-> r.qual]

\* one reading of the cluster, the noise size taken as known and the
\* cross-talk estimated without error.  An exception ends the run.
read_by_synthesis(range, direction, draw) ==
    /\ \A k \in 1..Len(calls) : calls[k].exception = NoValue
    /\ \E r \in { read_and_call(step, phasing_cache, build, cluster, range, direction, draw,
                                step.EPSILON, Inverse(step.CROSS_TALK)[1]) } :
          /\ phasing_cache' = r.cache
          /\ phasing_built' = phasing_built \o r.built
          /\ calls' = << CallRecord(range, direction, draw, r) >>
    /\ UNCHANGED <<seedVars, allocators, smear, flowcellVars, generatorVars, validation, loadVars, clusterVars,
                   step, build, execution, cluster_packet, packet_input>>

NextSynthesis ==
    \E range \in SynthesisRanges(step, cluster), direction \in {"+", "-"} :
       \E draw \in SynthesisDraws(step, cluster, range[2] - range[1]) :
          read_by_synthesis(range, direction, draw)

SpecSynthesis == InitSynthesis /\ [][NextSynthesis]_vars

(***************************************************************************)
(* Observations of the readings by synthesis                               *)
(***************************************************************************)
ReadLength(call) == call.range_end - call.range_start

\* the triple get_inv_phasing_matrix was called with for this reading
CallKey(call) == PhasingKey(ReadLength(call), step.skip_rate, step.drop_rate)

ZeroRates == step.skip_rate = Zero /\ step.drop_rate = Zero

\* no noise in the image: a noise size of 0, or normal draws that are all 0
Noiseless(call) == step.EPSILON = 0 \/ call.noise = Zero

Quality(score) == PHRED_MIN_ASCII + score

(***************************************************************************)
(* C15: with skip_rate = drop_rate = 0 the phasing matrix that             *)
(* get_inv_phasing_matrix builds is the identity matrix, whatever the read *)
(* length, and the inverse it returns is the identity matrix.              *)
(***************************************************************************)
C15_ZeroRatesGiveIdentity ==
    \A k \in 1..Len(calls) :
       ZeroRates =>
          /\ calls[k].exception = NoValue
          /\ phasing_matrix(ReadLength(calls[k]), Zero, Zero) = Identity(ReadLength(calls[k]))
          /\ calls[k].phasing_matrix_inv = << Identity(ReadLength(calls[k])) >>

\* the matrix for 12 positions has been built with both rates 0, and returned
C15_Witness ==
    \E k \in 1..Len(calls) :
       /\ ZeroRates
       /\ calls[k].built = << PhasingKey(12, Zero, Zero) >>
       /\ calls[k].phasing_matrix_inv = << Identity(12) >>

(***************************************************************************)
(* C16: 100 copies of ACGTACGTACGT, read from end to end in the forward    *)
(* direction with both rates 0, no imaging noise and the identity for      *)
(* cross-talk, are called "ACGTACGTACGT" with quality 41 at every          *)
(* position.                                                               *)
(***************************************************************************)
C16_CopiesCalledWithMaximumQuality ==
    \A k \in 1..Len(calls) :
       ( /\ cluster = CopiesOf(ACGT \o ACGT \o ACGT, 100)
         /\ ZeroRates
         /\ step.CROSS_TALK = Identity(4)
         /\ Noiseless(calls[k])
         /\ calls[k].direction = "+"
         /\ ReadLength(calls[k]) = 12 )
       => /\ calls[k].exception = NoValue
          /\ calls[k].seq = ACGT \o ACGT \o ACGT
          /\ calls[k].qual = [j \in 1..12 |-> Quality(PHRED_MAX_QUALITY)]

(***************************************************************************)
(* C17: at every position call_bases gives the quality                     *)
(* min(41, floor(-10 * log10(prob))) as chr(33 + quality); where prob is 0 *)
(* (an infinite score) and where the score is above 255 the quality is 41, *)
(* not the score modulo 256.                                               *)
(***************************************************************************)
C17_QualityIsCappedScore ==
    \A k \in 1..Len(calls) :
       \A j \in 1..Len(calls[k].raw) :
          /\ calls[k].raw[j].kind = "finite" =>
                calls[k].qual[j] = Quality(Min(PHRED_MAX_QUALITY, calls[k].raw[j].value))
          /\ calls[k].raw[j].kind = "inf" =>
                calls[k].qual[j] = Quality(PHRED_MAX_QUALITY)

(***************************************************************************)
(* SequenceBySynthesisStep.execute (76-136), one step per stage: the lines *)
(* before the loop, one iteration of the loop, and the sort and return.    *)
(***************************************************************************)
\* list[start:] for start >= 0
DropPrefix(list, start) == SubSeq(list, Min(start, Len(list)) + 1, Len(list))

\* GeneralUtils.create_complement_strand of the library: kept as the call made
create_complement_strand(bases) == [complement_strand_of |-> bases]

\* the order of LaneCoordinates: by tile, then x, then y
CoordinatesLess(a, b) ==
    \/ a.tile < b.tile
    \/ a.tile = b.tile /\ a.x < b.x
    \/ a.tile = b.tile /\ a.x = b.x /\ a.y < b.y

\* sorted(clusters, key=lambda cluster: cluster.coordinates): ascending, and
\* stable, so clusters with equal coordinates keep their order
RECURSIVE InsertSorted(_, _)
InsertSorted(sorted_list, c) ==
    IF sorted_list = <<>> THEN <<c>>
    ELSE IF CoordinatesLess(c.coordinates, sorted_list[Len(sorted_list)].coordinates)
    THEN Append(InsertSorted(SubSeq(sorted_list, 1, Len(sorted_list) - 1), c),
                sorted_list[Len(sorted_list)])
    ELSE Append(sorted_list, c)

RECURSIVE sorted_prefix(_, _)
sorted_prefix(clusters, n) ==
    IF n = 0 THEN <<>> ELSE InsertSorted(sorted_prefix(clusters, n - 1), clusters[n])

sorted_as_given(clusters) == clusters

sorted_by_coordinates(clusters) == sorted_prefix(clusters, Len(clusters))

\* the estimate of the cross-talk made before the loop, for a normal draw
cross_talk_estimate(self, draw) ==
    List([a \in 1..4 |->
            List([b \in 1..4 |->
                    RAdd(self.CROSS_TALK[a][b], RMul(draw[a][b], Fraction(1, 100)))])])

\* the draws followed: none, or one draw of +1 for the talk of T into G
EstimateDraws ==
    { List([a \in 1..4 |-> List([b \in 1..4 |->
                                   IF a = 3 /\ b = 4 THEN Whole(d) ELSE Zero])]) :
        d \in {0, 1} }

\* the cluster with the counts of its positions left in reverse order
set_called_reversing(c, called_sequences, called_barcode, quality_scores, read_starts, read_cigars, read_strands) ==
    [called_barcode |-> called_barcode, read_starts |-> read_starts,
     read_cigars |-> read_cigars, read_strands |-> read_strands]
    @@ [c EXCEPT !.called_sequences = called_sequences,
                 !.quality_scores = quality_scores,
                 !.base_counts = BaseCounts(Reverse(c.base_counts.G), Reverse(c.base_counts.A),
                                            Reverse(c.base_counts.T), Reverse(c.base_counts.C))]

\* lines 114-116 and 131-133: the cluster with the attributes execute sets
set_called(c, called_sequences, called_barcode, quality_scores, read_starts, read_cigars, read_strands) ==
    [called_barcode |-> called_barcode, read_starts |-> read_starts,
     read_cigars |-> read_cigars, read_strands |-> read_strands]
    @@ [c EXCEPT !.called_sequences = called_sequences,
                 !.quality_scores = quality_scores]

\* one iteration of the loop (86-133) on cluster c: the cluster it leaves,
\* the two call_bases calls, the cache, and the exception if one is raised
sequence(self, cache, bld, c, locals, draws) ==
    With(read_and_call(self, cache, bld, c,
                       <<self.forward_read_start, self.forward_read_end>>, "+",
                       draws.forward, locals.epsilon_est, locals.cross_talk_inv_est),
         LAMBDA fwd :
            IF fwd.exception # NoValue
            THEN [exception |-> fwd.exception, cluster |-> c, cache |-> fwd.cache,
                  built |-> fwd.built, results |-> <<fwd>>]
            ELSE With(read_and_call(self, fwd.cache, bld, c,
                                    <<self.reverse_read_start, self.reverse_read_end>>, "-",
                                    draws.reverse, locals.epsilon_est,
                                    locals.cross_talk_inv_est),
                      LAMBDA rev :
                         IF rev.exception # NoValue
                         THEN [exception |-> rev.exception, cluster |-> c, cache |-> rev.cache,
                               built |-> fwd.built \o rev.built, results |-> <<fwd, rev>>]
                         ELSE LET forward_barcode == PySlice(fwd.seq, 0, self.i5_length)
                                  forward_read ==
                                      DropPrefix(fwd.seq, self.i5_length + self.post_i5_length)
                                  forward_quality ==
                                      DropPrefix(fwd.qual, self.i5_length + self.post_i5_length)
                                  reverse_barcode ==
                                      create_complement_strand(
                                          PySlice(rev.seq, 0, self.i7_length))
                                  reverse_read ==
                                      DropPrefix(rev.seq, self.i7_length + self.post_i7_length)
                                  reverse_quality ==
                                      DropPrefix(rev.qual, self.i7_length + self.post_i7_length)
                                  fwd_chain ==
                                      [chain |-> <<self.i5_length + self.post_i5_length + 1,
                                                   self.read_length, "+", fwd.read[1]>>]
                                  rev_chain ==
                                      [chain |-> <<self.i7_length + self.post_i7_length,
                                                   self.read_length, "+", rev.read[1]>>]
                              IN  [exception |-> NoValue,
                                   cluster |->
                                      set_called(c, <<forward_read, reverse_read>>,
                                                 <<forward_barcode, reverse_barcode>>,
                                                 <<forward_quality, reverse_quality>>,
                                                 <<[start_of |-> fwd_chain],
                                                   [start_of |-> rev_chain]>>,
                                                 <<[cigar_of |-> fwd_chain],
                                                   [cigar_of |-> rev_chain]>>,
                                                 <<[strand_of |-> fwd_chain],
                                                   [strand_of |-> rev_chain]>>),
                                   cache |-> rev.cache,
                                   built |-> fwd.built \o rev.built,
                                   results |-> <<fwd, rev>>]))

(***************************************************************************)
(* The packets a step is given: clusters as the flowcell makes them, one   *)
(* copy of ACGT each, in some order of coordinates.  Two clusters of       *)
(* different lanes can have the same coordinates.  The cluster of the last *)
(* packet is one copy of AC, a molecule that ends within the read ranges.  *)
(***************************************************************************)
PacketCluster(cluster_id, lane, tile, x, y) ==
    NewCluster(RunId, cluster_id, Molecule(cluster_id, ACGT, NoValue, NoValue), lane,
               LaneCoordinates(tile, x, y))

SequencePackets ==
    { ClusterPacket(1, NoValue, << PacketCluster(1, 1, 2, 2, 1), PacketCluster(2, 1, 2, 1, 2),
                                   PacketCluster(3, 1, 1, 2, 2) >>),
      ClusterPacket(2, NoValue, << PacketCluster(4, 1, 1, 1, 2), PacketCluster(5, 2, 1, 1, 1),
                                   PacketCluster(6, 1, 1, 1, 1) >>),
      ClusterPacket(3, NoValue, << PacketCluster(7, 1, 1, 1, 1) >>),
      ClusterPacket(4, NoValue,
                    << NewCluster(RunId, 8, Molecule(8, <<Ord.A, Ord.C>>, NoValue, NoValue), 1,
                                  LaneCoordinates(1, 1, 1)) >>) }

\* the steps that execute packets: adapters and barcodes of no length, a
\* read length of 2
SequenceSettings ==
    { Setting(Zero, Zero, EPSILON, Identity(4)),
      Setting(Fraction(1, 2), Zero, EPSILON, PairCrossTalk) }

MaxExecutions == 2     \* packets one step executes in one run

Idle == [pc |-> "idle", cross_talk_inv_est |-> <<>>, epsilon_est |-> 0, index |-> 0,
         exception |-> NoValue, executions |-> 0]

InitSequence ==
    /\ FlowcellInit(50, <<>>, Geometry(<<1, 1>>, <<2, 2>>, <<1, 1>>, <<1, 1>>))
    /\ issued = <<>>
    /\ request = NoRequest
    /\ validation = <<>>
    /\ LoadInit
    /\ NoSeeding
    /\ NoAllocators
    /\ NoSmear
    /\ NoClusterInHand
    /\ step \in { StepOf(setting) : setting \in SequenceSettings }
    /\ build \in Builds
    /\ phasing_cache = <<>>
    /\ phasing_built = <<>>
    /\ execution = Idle
    /\ cluster_packet = <<>>
    /\ packet_input = <<>>
    /\ calls = <<>>

\* execute(cluster_packet) up to the loop (80-84)
execute_start(packet, draw) ==
    /\ execution.pc \in {"idle", "returned"}
    /\ execution.executions < MaxExecutions
    /\ \E inverse \in { Inverse(cross_talk_estimate(step, draw)) } :
          execution' = IF inverse = <<>>
                       THEN [execution EXCEPT !.pc = "raised", !.exception = "LinAlgError",
                                              !.executions = @ + 1]
                       ELSE [pc |-> "loop", cross_talk_inv_est |-> inverse[1],
                             epsilon_est |-> step.EPSILON, index |-> 1,
                             exception |-> NoValue,
                             executions |-> execution.executions + 1]
    /\ cluster_packet' = << packet >>
    /\ packet_input' = packet.clusters
    /\ calls' = <<>>
    /\ UNCHANGED <<seedVars, allocators, smear, flowcellVars, generatorVars, validation, loadVars, clusterVars,
                   step, build, phasing_cache, phasing_built>>

\* one iteration of "for cluster in cluster_packet.clusters" (86-133)
sequence_cluster(draws) ==
    /\ execution.pc = "loop"
    /\ execution.index <= Len(cluster_packet[1].clusters)
    /\ \E r \in { sequence(step, phasing_cache, build,
                           cluster_packet[1].clusters[execution.index], execution, draws) } :
          /\ phasing_cache' = r.cache
          /\ phasing_built' = phasing_built \o r.built
          /\ calls' = List([k \in 1..Len(r.results) |->
                              CallRecord(IF k = 1
                                         THEN <<step.forward_read_start, step.forward_read_end>>
                                         ELSE <<step.reverse_read_start, step.reverse_read_end>>,
                                         IF k = 1 THEN "+" ELSE "-",
                                         IF k = 1 THEN draws.forward ELSE draws.reverse,
                                         r.results[k])])
          /\ cluster_packet' =
                << [cluster_packet[1] EXCEPT !.clusters[execution.index] = r.cluster] >>
          /\ execution' = IF r.exception # NoValue
                          THEN [execution EXCEPT !.pc = "raised", !.exception = r.exception]
                          ELSE [execution EXCEPT !.index = @ + 1]
    /\ UNCHANGED <<seedVars, allocators, smear, flowcellVars, generatorVars, validation, loadVars, clusterVars,
                   step, build, packet_input>>

\* the sort and the return (135-136)
execute_return ==
    /\ execution.pc = "loop"
    /\ execution.index > Len(cluster_packet[1].clusters)
    /\ cluster_packet' =
          << [cluster_packet[1] EXCEPT !.clusters = sorted_by_coordinates(@)] >>
    /\ execution' = [execution EXCEPT !.pc = "returned"]
    /\ calls' = <<>>
    /\ UNCHANGED <<seedVars, allocators, smear, flowcellVars, generatorVars, validation, loadVars, clusterVars,
                   step, build, phasing_cache, phasing_built, packet_input>>

\* the draws of one iteration that are followed: the forward reading takes
\* any of the draws of a reading, the reverse reading has no skip, no drop
\* and no noise
SequenceDraws ==
    [forward : SynthesisDraws(step, [molecule_count |-> 1],
                              step.forward_read_end - step.forward_read_start),
     reverse : { [skips |-> {}, drops |-> {},
                  noise |-> List([r \in 1..4 |->
                                    List([j \in 1..(step.reverse_read_end
                                                    - step.reverse_read_start) |-> Zero])])] }]

NextSequence ==
    \/ \E packet \in SequencePackets, draw \in EstimateDraws : execute_start(packet, draw)
    \/ \E draws \in SequenceDraws : sequence_cluster(draws)
    \/ execute_return

SpecSequence == InitSequence /\ [][NextSequence]_vars

(***************************************************************************)
(* Observations of execute                                                 *)
(***************************************************************************)
Returned == execution.pc = "returned"

ReturnedClusters == cluster_packet[1].clusters

\* the cluster is the one handed in as c, whatever was read from it since
SameCluster(a, c) ==
    /\ a.cluster_id = c.cluster_id
    /\ a.lane = c.lane
    /\ a.coordinates = c.coordinates
    /\ a.molecule = c.molecule

Sequenced(c) == "called_barcode" \in DOMAIN c /\ Len(c.called_sequences) = 2

(***************************************************************************)
(* C13: after sequencing, every cluster of a paired-end run carries two    *)
(* called sequences, two called indices and two quality strings, index 0   *)
(* forward and index 1 reverse: three parallel lists of the same length,   *)
(* filled once.                                                            *)
(***************************************************************************)
C13_ParallelListsPerDirection ==
    Returned =>
       \A i \in 1..Len(ReturnedClusters) :
          /\ Len(ReturnedClusters[i].called_sequences) = 2
          /\ Len(ReturnedClusters[i].called_indices) = 2
          /\ Len(ReturnedClusters[i].quality_scores) = 2

(***************************************************************************)
(* C18: over all call_bases calls of a process (every cluster, both        *)
(* directions, every packet) the phasing matrix of a triple (read length,  *)
(* skip rate, drop rate) is built and inverted at most once; a later call  *)
(* with the triple gets the stored inverse, the same matrix.               *)
(***************************************************************************)
C18_PhasingBuiltOncePerTriple ==
    /\ Distinct(phasing_built)
    /\ \A i, j \in 1..Len(phasing_cache) :
          phasing_cache[i].key = phasing_cache[j].key => i = j
    /\ \A k \in 1..Len(calls) :
          calls[k].exception = NoValue =>
             /\ \E n \in 1..Len(phasing_built) : phasing_built[n] = CallKey(calls[k])
             /\ \E i \in 1..Len(phasing_cache) :
                   /\ phasing_cache[i].key = CallKey(calls[k])
                   /\ calls[k].phasing_matrix_inv = << phasing_cache[i].value >>

\* in the second packet both readings of a cluster are served from the cache
C18_Witness ==
    /\ execution.executions = 2
    /\ Len(calls) = 2
    /\ \A k \in 1..Len(calls) : calls[k].exception = NoValue /\ calls[k].built = <<>>
    /\ Len(phasing_built) = 2

(***************************************************************************)
(* C19: execute returns the packet with its clusters in ascending order of *)
(* LaneCoordinates; the clusters returned are the clusters handed in, each *)
(* once, and each has been sequenced.                                      *)
(***************************************************************************)
C19_ReturnedSortedPermutation ==
    Returned =>
       /\ \A i, j \in 1..Len(ReturnedClusters) :
             i < j => ~CoordinatesLess(ReturnedClusters[j].coordinates,
                                       ReturnedClusters[i].coordinates)
       /\ Len(ReturnedClusters) = Len(packet_input)
       /\ \A n \in 1..Len(packet_input) :
             Cardinality({ i \in 1..Len(ReturnedClusters) :
                             SameCluster(ReturnedClusters[i], packet_input[n]) }) = 1
       /\ \A i \in 1..Len(ReturnedClusters) : Sequenced(ReturnedClusters[i])

\* three clusters have been returned in another order than they came in
C19_Witness ==
    /\ Returned
    /\ Len(ReturnedClusters) = 3
    /\ ~SameCluster(ReturnedClusters[1], packet_input[1])
    /\ \A i \in 1..Len(ReturnedClusters) : Sequenced(ReturnedClusters[i])

(***************************************************************************)
(* Observations of the lanes of a returned packet                          *)
(***************************************************************************)
\* the position in lanes_to_use of the lane of a cluster
LaneIndexOf(c) ==
    CHOOSE l \in 1..Len(lanes_to_use) :
        /\ lanes_to_use[l] = c.lane
        /\ \A earlier \in 1..(l - 1) : lanes_to_use[earlier] # c.lane

(***************************************************************************)
(* C22: in a returned packet the lane index of the clusters does not       *)
(* decrease along the retained molecules, the clusters of a lane form one  *)
(* contiguous block, and where the retained molecules are at least as many *)
(* as the usable lanes every usable lane holds at least one cluster.       *)
(***************************************************************************)
C22_LanesInInputOrder ==
    \A p \in 1..Len(cluster_packets) :
        LET clusters == cluster_packets[p].clusters
            n == Len(clusters)
        IN  /\ \A i, j \in 1..n : i < j => LaneIndexOf(clusters[i]) <= LaneIndexOf(clusters[j])
            /\ \A i, j, k \in 1..n :
                  (i < j /\ j < k /\ clusters[i].lane = clusters[k].lane)
                      => clusters[j].lane = clusters[i].lane
            /\ n >= Len(lanes_to_use) =>
                  \A l \in 1..Len(lanes_to_use) : LaneCount(clusters, lanes_to_use[l]) >= 1

(***************************************************************************)
(* C23: load_flowcell ends without an exception for every retained count,  *)
(* also one below the number of lanes, and the packet it returns holds one *)
(* cluster per retained molecule, the i-th cluster owning the i-th         *)
(* retained molecule, and carries the sample of the molecule packet.       *)
(***************************************************************************)
C23_OneClusterPerRetainedMolecule ==
    /\ exception \notin {"ZeroDivisionError"}
    /\ load_pc = "returned" =>
          LET returned == cluster_packets[Len(cluster_packets)]
              retained == molecule_packet.molecules
          IN  /\ Len(returned.clusters) = Len(retained)
              /\ \A i \in 1..Len(retained) : returned.clusters[i].molecule = retained[i]
              /\ returned.sample = molecule_packet.sample

(***************************************************************************)
(* C28: at every position a read_over_range call covered whose four counts *)
(* sum to at most molecule_count, the quality character written encodes a  *)
(* value from 0 to MAX_QUALITY: it is one of chr(33) .. chr(74).           *)
(***************************************************************************)
C28_QualityWithinRange ==
    \A i \in 1..Len(readings) : \A position \in PositionsCalled(readings[i]) :
        SumOfCounts(CountsAt(position)) <= cluster.molecule_count =>
            /\ QualityCalled(readings[i], position) >= MIN_ASCII
            /\ QualityCalled(readings[i], position) <= MIN_ASCII + MAX_QUALITY

\* 3 of 10 copies disagree (A:7, T:2, C:1): quality 5, written as chr(38); and
\* a position of the same cluster read at the maximum
C28_Witness ==
    /\ cluster.molecule_count = 10
    /\ \E i \in 1..Len(readings) : \E p, q \in PositionsCalled(readings[i]) :
          /\ CountsAt(p) = <<0, 7, 2, 1>>
          /\ QualityCalled(readings[i], p) = MIN_ASCII + 5
          /\ SumOfCounts(CountsAt(q)) <= 10
          /\ QualityCalled(readings[i], q) = MIN_ASCII + MAX_QUALITY

(***************************************************************************)
(* get_frac_skipped and the smearing of read_flourescence on their own:    *)
(* one call, observed, over every outcome of the draws of the first        *)
(* copies.                                                                 *)
(***************************************************************************)
MaxSmearLength == 3     \* read_len of a get_frac_skipped call
MaxDepth == 2           \* max_skips of a get_frac_skipped call

SmearCopies == {1, 2}   \* molecule_count of a get_frac_skipped call

SmearRates == { Zero, Fraction(1, 2), One }

\* np.random.random(size) < rate: random() is in [0, 1), so nothing is below
\* a rate of 0, everything is below a rate of 1, and any set of draws can be
\* below a rate in between
SkipOutcomes(rate, molecule_count, read_len) ==
    IF ~RLess(Zero, rate) THEN { {} }
    ELSE IF ~RLess(rate, One) THEN { AllDraws(molecule_count, read_len) }
    ELSE SUBSET AllDraws(molecule_count, read_len)

\* the steps that smear, by rates, and the cluster each reads: two copies of
\* ACGTA without and with skips, one copy and the ten copies that disagree
\* with skips and drops, one copy of AC with skips
SmearScenarios ==
    { <<Setting(Zero, Zero, EPSILON, Identity(4)), CopiesOf(ACGT \o <<Ord.A>>, 2)>>,
      <<Setting(Fraction(1, 2), Zero, EPSILON, Identity(4)), CopiesOf(ACGT \o <<Ord.A>>, 2)>>,
      <<Setting(Fraction(1, 2), Fraction(1, 2), EPSILON, Identity(4)),
        CopiesOf(ACGT \o <<Ord.A>>, 1)>>,
      <<Setting(Fraction(1, 2), Fraction(1, 2), EPSILON, Identity(4)), Disagreeing>>,
      <<Setting(Fraction(1, 2), Zero, EPSILON, Identity(4)), CopiesOf(<<Ord.A, Ord.C>>, 1)>> }

SmearRanges == { <<0, 1>>, <<0, 2>>, <<1, 3>>, <<0, 3>> }

\* the draws of a reading in which only the first copy skips or drops
SmearDraws(self, read_len) ==
    [skips : SkipOutcomes(self.skip_rate, 1, read_len),
     drops : SkipOutcomes(self.drop_rate, 1, read_len),
     noise : NoiseDraws(read_len)]

InitSmear ==
    /\ FlowcellInit(50, <<>>, Geometry(<<1, 1>>, <<2, 2>>, <<1, 1>>, <<1, 1>>))
    /\ issued = <<>>
    /\ request = NoRequest
    /\ validation = <<>>
    /\ LoadInit
    /\ NoSeeding
    /\ NoAllocators
    /\ NoSmear
    /\ \E scenario \in SmearScenarios :
          /\ step = StepOf(scenario[1])
          /\ cluster = scenario[2]
    /\ readings = <<>>
    /\ cluster_exception = NoValue
    /\ serialized = <<>>
    /\ restored = <<>>
    /\ record = <<>>
    /\ parsed = <<>>
    /\ build = <<>>
    /\ phasing_cache = <<>>
    /\ phasing_built = <<>>
    /\ execution = <<>>
    /\ cluster_packet = <<>>
    /\ packet_input = <<>>
    /\ calls = <<>>

\* frac = get_frac_skipped(rate, max_skips, molecule_count, read_len)
count_skips(rate, max_skips, molecule_count, read_len, skips) ==
    /\ smear = <<>>
    /\ smear' = << [call |-> "get_frac_skipped",
                    rate |-> rate, max_skips |-> max_skips,
                    molecule_count |-> molecule_count, read_len |-> read_len,
                    skips |-> skips,
                    frac_skipped |-> get_frac_skipped(rate, max_skips, molecule_count,
                                                      read_len, skips)] >>
    /\ UNCHANGED <<seedVars, allocators, flowcellVars, generatorVars, validation, loadVars,
                   clusterVars, sequenceVars>>

\* self.read_flourescence(cluster, range_start, range_end, direction)
read_signal(range, direction, draw) ==
    /\ smear = <<>>
    /\ \E f \in { read_flourescence(step, cluster, range[1], range[2], direction, draw) } :
          smear' = << [call |-> "read_flourescence",
                       range_start |-> range[1], range_end |-> range[2],
                       direction |-> direction,
                       skips |-> draw.skips, drops |-> draw.drops,
                       exception |-> f.exception,
                       padded_base_counts |-> f.locals.padded_base_counts,
                       frac_skipped |-> f.locals.frac_skipped,
                       frac_dropped |-> f.locals.frac_dropped,
                       frac_maintained |-> f.locals.frac_maintained,
                       smeared_base_counts |-> f.locals.smeared_base_counts,
                       flourescence |-> f.flourescence] >>
    /\ UNCHANGED <<seedVars, allocators, flowcellVars, generatorVars, validation, loadVars,
                   clusterVars, sequenceVars>>

NextSmear ==
    \/ \E rate \in SmearRates, max_skips \in 1..MaxDepth, molecule_count \in SmearCopies,
          read_len \in 0..MaxSmearLength :
          \E skips \in SkipOutcomes(rate, molecule_count, read_len) :
             count_skips(rate, max_skips, molecule_count, read_len, skips)
    \/ \E range \in SmearRanges, direction \in {"+", "-"} :
          \E draw \in SmearDraws(step, range[2] - range[1]) :
             read_signal(range, direction, draw)

SpecSmear == InitSmear /\ [][NextSmear]_vars

(***************************************************************************)
(* Observations of the smearing                                            *)
(***************************************************************************)
\* the skip events of copy m up to position j, at most max_skips
ClippedDepth(call, m, j) ==
    Min(Cardinality({ p \in 1..j : <<m, p>> \in call.skips }), call.max_skips)

FracCalls == { k \in 1..Len(smear) : smear[k].call = "get_frac_skipped" }

SmearCalls ==
    { k \in 1..Len(smear) :
         smear[k].call = "read_flourescence" /\ smear[k].exception = NoValue }

(***************************************************************************)
(* C26: in the array get_frac_skipped returns, at every read position the  *)
(* fractions over the depths 0..max_skips sum to exactly 1: the fraction   *)
(* at a depth is that of the copies whose events so far, clipped to        *)
(* max_skips, number that depth, each copy counted at one depth.           *)
(***************************************************************************)
C26_FractionsSumToOne ==
    \A k \in FracCalls :
       /\ Len(smear[k].frac_skipped) = smear[k].read_len
       /\ \A j \in 1..smear[k].read_len :
             /\ Len(smear[k].frac_skipped[j]) = smear[k].max_skips + 1
             /\ RSum(smear[k].frac_skipped[j]) = One
             /\ \A depth \in 0..smear[k].max_skips :
                   smear[k].frac_skipped[j][depth + 1] =
                      Fraction(Cardinality({ m \in 1..smear[k].molecule_count :
                                                ClippedDepth(smear[k], m, j) = depth }),
                               smear[k].molecule_count)

\* of two copies, one has three events by the third position with
\* max_skips = 2 and is counted at depth 2, the other has none
C26_Witness ==
    \E k \in FracCalls :
       /\ smear[k].max_skips = 2 /\ smear[k].molecule_count = 2 /\ smear[k].read_len = 3
       /\ smear[k].skips = { <<1, 1>>, <<1, 2>>, <<1, 3>> }
       /\ smear[k].frac_skipped[3] = << Fraction(1, 2), Zero, Fraction(1, 2) >>

(***************************************************************************)
(* C25: the smeared counts the fluorescence is made of are the sum of the  *)
(* skip-smeared, the drop-smeared and the maintained component: at every   *)
(* position the counts 1..MAX_SKIPS ahead and 1..MAX_DROPS behind, each    *)
(* weighted by the fraction of that depth, added to the position's own     *)
(* counts weighted by the maintained fraction.                             *)
(***************************************************************************)
SkipSmeared(call, r, j) ==
    RSum([skip \in 1..MAX_SKIPS |->
             RMul(Whole(call.padded_base_counts[r][MAX_DROPS + j + skip]),
                  call.frac_skipped[j][skip + 1])])

DropSmeared(call, r, j) ==
    RSum([drop \in 1..MAX_DROPS |->
             RMul(Whole(call.padded_base_counts[r][MAX_DROPS + j - drop]),
                  call.frac_dropped[j][drop + 1])])

Maintained(call, r, j) ==
    RMul(Whole(call.padded_base_counts[r][MAX_DROPS + j]), call.frac_maintained[j])

C25_SmearIsSuperposition ==
    \A k \in SmearCalls :
       \A r \in 1..4 : \A j \in 1..(smear[k].range_end - smear[k].range_start) :
          smear[k].smeared_base_counts[r][j] =
             RAdd(RAdd(SkipSmeared(smear[k], r, j), DropSmeared(smear[k], r, j)),
                  Maintained(smear[k], r, j))

(***************************************************************************)
(* C29: at every read position the weight of the un-shifted counts, the    *)
(* fraction of copies taken to have neither skipped nor dropped, is        *)
(* between 0 and 1, whatever the skip and drop draws.                      *)
(***************************************************************************)
C29_MaintainedFractionInUnitInterval ==
    \A k \in SmearCalls :
       \A j \in 1..Len(smear[k].frac_maintained) :
          /\ ~RLess(smear[k].frac_maintained[j], Zero)
          /\ ~RLess(One, smear[k].frac_maintained[j])

(***************************************************************************)
(* C27: sequencing a cluster sets its called sequences, called barcode,    *)
(* quality scores and read starts, cigars and strands, and nothing else:   *)
(* every cluster of the packet keeps the counts, molecule, molecule count, *)
(* lane, coordinates, ids and every other attribute it came in with, and   *)
(* an iteration of the loop leaves every other cluster as it was.          *)
(***************************************************************************)
WrittenBySequencing ==
    { "called_sequences", "called_barcode", "quality_scores", "read_starts", "read_cigars",
      "read_strands" }

\* a is the input cluster c but for the attributes sequencing sets
FrameKept(a, c) ==
    /\ DOMAIN a \subseteq (DOMAIN c \cup WrittenBySequencing)
    /\ \A field \in DOMAIN c \ WrittenBySequencing : field \in DOMAIN a /\ a[field] = c[field]

C27_OnlyCalledFieldsWritten ==
    /\ [](\A k \in 1..Len(cluster_packet) :
             \A i \in 1..Len(cluster_packet[k].clusters) :
                \E n \in 1..Len(packet_input) :
                   /\ packet_input[n].cluster_id = cluster_packet[k].clusters[i].cluster_id
                   /\ FrameKept(cluster_packet[k].clusters[i], packet_input[n]))
    /\ [][(execution.pc = "loop" /\ execution'.pc # "returned") =>
             \A i \in 1..Len(cluster_packet[1].clusters) :
                i # execution.index =>
                   cluster_packet'[1].clusters[i] = cluster_packet[1].clusters[i]]_vars

\* the second of three clusters has just been read in both directions: it
\* holds two called sequences and the counts it came with, the third is as
\* it came
C27_Witness ==
    /\ execution.pc = "loop" /\ execution.index = 3
    /\ Len(cluster_packet[1].clusters) = 3
    /\ Len(calls) = 2
    /\ Sequenced(cluster_packet[1].clusters[2])
    /\ cluster_packet[1].clusters[2].base_counts = packet_input[2].base_counts
    /\ cluster_packet[1].clusters[3] = packet_input[3]

(***************************************************************************)
(* C30: execute does not fail on a molecule that ends before the read      *)
(* range does (the positions past its end are read as zeros), and in the   *)
(* packet it returns every cluster has, in both directions, a called read  *)
(* and a quality string of read_length positions, the barcode and the      *)
(* adapter dropped from the front.                                         *)
(***************************************************************************)
C30_ReadsOfReadLength ==
    /\ execution.pc = "raised" => execution.exception # "ValueError"
    /\ Returned =>
          \A i \in 1..Len(ReturnedClusters) : \A d \in 1..2 :
             /\ Len(ReturnedClusters[i].called_sequences[d]) = step.read_length
             /\ Len(ReturnedClusters[i].quality_scores[d]) = step.read_length

(***************************************************************************)
(* Several coordinate generators at work.  Flowcell.__init__ makes one     *)
(* generator per lane to use (flowcell.py 52-54); every further call of    *)
(* generate_coordinates(lane) makes another generator that looks up the    *)
(* same consumed_coordinates list of the lane (146-148).  A generator's    *)
(* body runs, step by step, from a next() call to its yield or raise; the  *)
(* code has one thread, so a next() call is made only while no generator   *)
(* body is running.                                                        *)
(*   pc: "created"   - not started                                         *)
(*       "loop"      - at "while True" (140)                               *)
(*       "drawn"     - coordinates made (145), not looked up yet           *)
(*       "fresh"     - found not to be in consumed_coordinates (149)       *)
(*       "duplicate" - found in consumed_coordinates (149)                 *)
(*       "suspended" - at the yield (152)                                  *)
(*       "finished"  - has raised (154)                                    *)
(***************************************************************************)
AllocatorFrame(lane) ==
    [lane |-> lane, pc |-> "created", ctr |-> 0, coordinates |-> LaneCoordinates(0, 0, 0)]

InBody(frames) == { g \in 1..Len(frames) : frames[g].pc \in {"loop", "drawn", "fresh", "duplicate"} }

\* next(generator) can be called: the generator has not finished, and a call
\* is made only by code that runs, that is outside every generator body
resumable_while_running(frames, g) == frames[g].pc \in {"created", "suspended"}

resumable(frames, g) ==
    /\ frames[g].pc \in {"created", "suspended"}
    /\ InBody(frames) = {}

\* the flowcells and the lanes further generators are made for: one lane of
\* two triples with a second generator, and two lanes of a single triple
\* with a second generator for lane 1
AllocateConfigurations ==
    { [geometry |-> Geometry(<<1, 1>>, <<1, 2>>, <<1, 1>>, <<1, 1>>), further |-> <<1>>],
      [geometry |-> Geometry(<<1, 2>>, <<3, 3>>, <<1, 1>>, <<1, 1>>), further |-> <<1>>] }

InitAllocate ==
    /\ issued = <<>>
    /\ request = NoRequest
    /\ validation = <<>>
    /\ LoadInit
    /\ NoSeeding
    /\ NoSmear
    /\ NoClusterInHand
    /\ NoSequencing
    /\ \E c \in AllocateConfigurations :
          /\ FlowcellInit(50, <<>>, c.geometry)
          /\ allocators = [g \in 1..(Len(lanes_to_use) + Len(c.further)) |->
                             AllocatorFrame(IF g <= Len(lanes_to_use) THEN lanes_to_use[g]
                                            ELSE c.further[g - Len(lanes_to_use)])]

AllocateUnchanged ==
    UNCHANGED <<seedVars, smear, flowcellVars, coordinate_generators, request, validation,
                loadVars, clusterVars, sequenceVars>>

\* next(generator): the body starts at 139, or goes on after the yield (153)
next_coordinates(g) ==
    /\ resumable(allocators, g)
    /\ allocators' = [allocators EXCEPT ![g].pc = "loop"]
    /\ UNCHANGED <<flowcell_lanes, issued>>
    /\ AllocateUnchanged

\* 141-145
make_coordinates(g, draw) ==
    /\ allocators[g].pc = "loop"
    /\ allocators' = [allocators EXCEPT ![g].ctr = @ + 1, ![g].coordinates = draw,
                                        ![g].pc = "drawn"]
    /\ UNCHANGED <<flowcell_lanes, issued>>
    /\ AllocateUnchanged

\* 146-149
look_up_coordinates(g) ==
    /\ allocators[g].pc = "drawn"
    /\ allocators' =
          [allocators EXCEPT
              ![g].pc = IF ~Contains(ConsumedOf(allocators[g].lane), allocators[g].coordinates)
                        THEN "fresh" ELSE "duplicate"]
    /\ UNCHANGED <<flowcell_lanes, issued>>
    /\ AllocateUnchanged

\* 150-152
append_and_yield(g) ==
    /\ allocators[g].pc = "fresh"
    /\ allocators' = [allocators EXCEPT ![g].ctr = 0, ![g].pc = "suspended"]
    /\ flowcell_lanes' =
          [flowcell_lanes EXCEPT
              ![FirstLaneIndex(flowcell_lanes, allocators[g].lane)].consumed_coordinates =
                  Append(@, allocators[g].coordinates)]
    /\ issued' = Append(issued, <<allocators[g].lane, allocators[g].coordinates>>)
    /\ AllocateUnchanged

\* 153-154
retry_or_raise(g) ==
    /\ allocators[g].pc = "duplicate"
    /\ allocators' = [allocators EXCEPT
                         ![g].pc = IF allocators[g].ctr >= MaxAttempts THEN "finished"
                                   ELSE "loop"]
    /\ UNCHANGED <<flowcell_lanes, issued>>
    /\ AllocateUnchanged

NextAllocate ==
    \E g \in 1..Len(allocators) :
       \/ next_coordinates(g)
       \/ \E draw \in DrawSpace(min_coords, max_coords) : make_coordinates(g, draw)
       \/ look_up_coordinates(g)
       \/ append_and_yield(g)
       \/ retry_or_raise(g)

SpecAllocate == InitAllocate /\ [][NextAllocate]_vars

advance(state) == (5 * state + 3) % 16

RECURSIVE advance_by(_, _)
advance_by(state, draws) == IF draws = 0 THEN state ELSE advance_by(advance(state), draws - 1)

\* np.random.default_rng([seed, sample_id, packet_id, stage])
default_rng(seed_list) ==
    (7 * seed_list[1] + 5 * seed_list[2] + 3 * seed_list[3] + seed_list[4]) % 16

\* the states the global generator can have when numpy has been imported
EntropyStates == 0..15

\* np.random.choice(range(lo, hi + 1)) with the generator in `state`
choice_of_range(state, lo, hi) == lo + (state % (hi - lo + 1))

\* np.random.choice(molecules, size=size, replace=False), ChoiceRaises aside
RECURSIVE choice(_, _, _)
choice(state, molecules, size) ==
    IF size = 0 THEN <<>>
    ELSE LET k == (state % Len(molecules)) + 1
         IN  <<molecules[k]>> \o
             choice(advance(state),
                    SubSeq(molecules, 1, k - 1) \o SubSeq(molecules, k + 1, Len(molecules)),
                    size - 1)

MaxRuns == 2        \* stage executions in one process

SeedLists == { <<seed, 1, packet_id>> : seed \in {1, 2}, packet_id \in {1, 2} }

InitSeed ==
    /\ FlowcellInit(50, <<>>, Geometry(<<1, 1>>, <<1, 2>>, <<1, 1>>, <<1, 1>>))
    /\ issued = <<>>
    /\ request = NoRequest
    /\ validation = <<>>
    /\ LoadInit
    /\ NoAllocators
    /\ NoSmear
    /\ NoClusterInHand
    /\ NoSequencing
    /\ np_random \in EntropyStates
    /\ runs = <<>>

SeedUnchanged ==
    UNCHANGED <<allocators, smear, flowcellVars, generatorVars, validation, loadVars,
                clusterVars, sequenceVars>>

\* LibraryPrepPipeline.main (228-238, 271): the steps draw from rng
library_prep_main(seed, sample_id, packet_id) ==
    /\ Len(runs) < MaxRuns
    /\ LET seed_list == <<seed, sample_id, packet_id, 1>>
           rng == default_rng(seed_list)
       IN  runs' = Append(runs, [stage |-> "library_prep",
                                 key |-> <<seed, sample_id, packet_id>>,
                                 outcome |-> <<rng, advance(rng)>>])
    /\ UNCHANGED np_random
    /\ SeedUnchanged

\* Flowcell.load_flowcell on a packet of two molecules: the molecules
\* retained (82-83) and the coordinates of the first cluster (142-145)
load_packet(seed, sample_id, packet_id) ==
    /\ Len(runs) < MaxRuns
    /\ LET molecules == PacketMolecules(2)
           size == number_samples_to_draw(flowcell_retention, molecules)
           retained == choice(np_random, molecules, size)
           drawing == advance_by(np_random, size)
           x == choice_of_range(drawing, min_coords.x, max_coords.x)
           y == choice_of_range(advance(drawing), min_coords.y, max_coords.y)
           tile == choice_of_range(advance_by(drawing, 2), min_coords.tile, max_coords.tile)
       IN  /\ runs' = Append(runs, [stage |-> "flowcell",
                                    key |-> <<seed, sample_id, packet_id>>,
                                    outcome |-> <<retained, LaneCoordinates(tile, x, y)>>])
           /\ np_random' = advance_by(drawing, 3)
    /\ SeedUnchanged

\* SequenceBySynthesisStep.execute on a packet of one cluster: the normal
\* draws of the cross-talk estimate (80), the uniform draws of the skips and
\* of the drops (294) and the normal draws of the image of each reading (211),
\* which the called sequences and qualities are computed from
execute_packet(seed, sample_id, packet_id) ==
    /\ Len(runs) < MaxRuns
    /\ runs' = Append(runs, [stage |-> "sequence",
                             key |-> <<seed, sample_id, packet_id>>,
                             outcome |-> [k \in 1..7 |-> advance_by(np_random, k - 1)]])
    /\ np_random' = advance_by(np_random, 7)
    /\ SeedUnchanged

NextSeed ==
    \E key \in SeedLists :
       \/ library_prep_main(key[1], key[2], key[3])
       \/ load_packet(key[1], key[2], key[3])
       \/ execute_packet(key[1], key[2], key[3])

SpecSeed == InitSeed /\ [][NextSeed]_vars

(***************************************************************************)
(* C21: two executions of a stage with the same run seed, sample id and    *)
(* packet id (and so the same stage constant) have the same random         *)
(* outcome, whatever was executed before them in the process.              *)
(***************************************************************************)
C21_SeededReproducible ==
    \A i, j \in 1..Len(runs) :
       (runs[i].stage = runs[j].stage /\ runs[i].key = runs[j].key) =>
          runs[i].outcome = runs[j].outcome

====
